---- MODULE Spec2Model ----
(***************************************************************************)
(* A model of freecad/gears/features.py: the outline assembly loop of the  *)
(* involute, cycloid and bevel gears, the solid-assembly selection of the  *)
(* involute, cycloid, rack and bevel gears and helicalextrusion.           *)
(*                                                                         *)
(* Further specifications over the same variables: HypoSpec and ScanSpec   *)
(* (the hypocycloid cam and its pressure angle scan), LegacySpec (the      *)
(* tooth object of the involute gear, the rack and the cycloid gear across *)
(* calls, with features restored from old documents), TimingSpec (the      *)
(* computed properties of the timing belt pulley), LanternSpec (the root   *)
(* search of the lantern gear), ExecSpec (BaseGear.execute), ReplicaSpec   *)
(* (the replication loops of the timing, worm, crown, lantern and          *)
(* hypocycloid gears and the tooth of the worm) and LoopSpec (every        *)
(* generation call loop by loop, under weak fairness of the running call). *)
(*                                                                         *)
(* Lengths and angles are exact rationals [n, d] (d > 0, lowest terms).    *)
(* Angles of outline points are integers modulo Turn (one full turn).      *)
(* A pitch of a helix is kept as its coefficient of 2*pi.                  *)
(***************************************************************************)
EXTENDS Integers, Sequences, FiniteSets, TLC

\* ------------------------------------------------------------------ bounds
MaxTeeth == 3
MaxModule == 2
MaxHeight == 2
MaxCurves == 2

\* ------------------------------------------------------- program constants
\* np.linspace(scale_0, scale_1, 20): the number of bevel loft stations
NumStations == 20
\* makeHelix(pitch, height, 10., 0, direction): the radius of the spine
HelixRadius == 10

\* --------------------------------------------------------------- rationals
\* The operations on rationals are functions behind their operators: a
\* function is applied to the values of its arguments, so that an argument
\* is evaluated once however often the body names it.
GcdOf[a \in Nat, b \in Nat] == IF b = 0 THEN a ELSE GcdOf[b, a % b]

GCD(a, b) == GcdOf[a, b]

Abs(x) == IF x < 0 THEN -x ELSE x

RECURSIVE LCMUpTo(_)
LCMUpTo(n) == IF n <= 1 THEN 1
              ELSE LET l == LCMUpTo(n - 1) IN (l * n) \div GCD(l, n)

\* the rational n/d in lowest terms with a positive denominator
Lowest[n \in Int, d \in Int] ==
    LET s == IF d < 0 THEN -1 ELSE 1
        g == GCD(Abs(n), Abs(d))
    IN  [n |-> (s * n) \div g, d |-> (s * d) \div g]

R(n, d) == Lowest[n, d]

\* the pairs of a numerator and a denominator
Fractions == [n : Int, d : Int]

RInt(k) == [n |-> k, d |-> 1]

Sum[a \in Fractions, b \in Fractions] == R(a.n * b.d + b.n * a.d, a.d * b.d)

RAdd(a, b) == Sum[a, b]

Negative[a \in Fractions] == [n |-> -a.n, d |-> a.d]

RNeg(a) == Negative[a]

RSub(a, b) == RAdd(a, RNeg(b))

Product[a \in Fractions, b \in Fractions] == R(a.n * b.n, a.d * b.d)

RMul(a, b) == Product[a, b]

Quotient[a \in Fractions, b \in Fractions] == R(a.n * b.d, a.d * b.n)

RDiv(a, b) == Quotient[a, b]

Magnitude[a \in Fractions] == [n |-> Abs(a.n), d |-> a.d]

RAbs(a) == Magnitude[a]

Less[a \in Fractions, b \in Fractions] == a.n * b.d < b.n * a.d

RLt(a, b) == Less[a, b]

LessOrEqual[a \in Fractions, b \in Fractions] == a.n * b.d <= b.n * a.d

RLe(a, b) == LessOrEqual[a, b]

RHalf == R(1, 2)

\* one full turn, in the unit of outline point angles: every 1/z turn with
\* z in 1..MaxTeeth is a whole number of units
Turn == LCMUpTo(MaxTeeth)

\* ------------------------------------------------------------ input domains
Families == {"InvoluteGear", "CycloidGear", "InvoluteGearRack", "BevelGear"}
TeethValues == 1..MaxTeeth
ModuleValues == 1..MaxModule
HeightValues == 0..MaxHeight
\* helix angles, in degrees (App::PropertyAngle)
BetaValues == {-45, 0, 45}
\* bevel cone angles, in degrees
PitchAngleValues == {45}

\* np.tan(deg * np.pi / 180) on the angles of the model
TanDeg(deg) ==
    CASE deg = 0 -> RInt(0)
      [] deg = 45 -> RInt(1)
      [] deg = -45 -> RInt(-1)

\* ------------------------------------------------------ points and curves
\* A point of the outline: id names the point of the tooth profile, a is the
\* rotation about the gear axis applied to it (in 1/Turn of a full turn).
Pt(id) == [id |-> id, a |-> 0]

\* fp.gear.points(num): k curves, curve c running from profile vertex c-1 to
\* profile vertex c through one inner point
ToothPoints(k) == [c \in 1..k |-> <<Pt(2 * c - 2), Pt(2 * c - 1), Pt(2 * c)>>]

\* fp.rack.points(): the points of the rack polygon
RackPoints(z) == [j \in 1..(2 * z + 2) |-> Pt(j - 1)]

\* rotation(phi) / rotation3D(phi) applied to one curve (an array of points)
rotation(phi, curve) ==
    [j \in 1..Len(curve) |-> [curve[j] EXCEPT !.a = (curve[j].a + phi) % Turn]]

first_point(curve) == curve[1]
last_point(curve) == curve[Len(curve)]

\* np.array([p, q]): the two-point curve from p to q
segment(p, q) == <<p, q>>

\* ------------------------------------------------------------ kernel shapes
Zero == RInt(0)

\* Wire(wi) of the interpolated curves / Wire(makePolygon(points))
Wire(curves) == [kind |-> "wire", curves |-> curves, dy |-> Zero, dz |-> Zero]

\* a slip of translate: the shift along y is dropped
translate_no_y(wire, dy, dz) == [wire EXCEPT !.dz = RAdd(wire.dz, dz)]

\* wire.translate(fcvec([0, dy, dz])) of a copy of the wire
translate(wire, dy, dz) ==
    [wire EXCEPT !.dy = RAdd(wire.dy, dy), !.dz = RAdd(wire.dz, dz)]

\* a slip of extrude: the vector is (0, height, 0)
extrude_along_y(wire, height) ==
    [kind |-> "extrusion", face |-> wire, dx |-> Zero, dy |-> height, dz |-> Zero]

\* Face(wi).extrude(App.Vector(0, 0, height))
extrude(wire, height) ==
    [kind |-> "extrusion", face |-> wire, dx |-> Zero, dy |-> Zero, dz |-> height]

\* Part.makeCylinder(rw, height)
makeCylinder(radius, height) ==
    [kind |-> "cylinder", radius |-> radius, height |-> height]

\* makeLoft(profiles, solid, ruled)
makeLoft(profiles, solid, ruled) ==
    [kind |-> "loft", profiles |-> profiles, solid |-> solid, ruled |-> ruled]

\* makeHelix(pitch, height, radius, angle, lefthand); pitch is the
\* coefficient of pi of the pitch
makeHelix(pitch, height, radius, left) ==
    [pitch |-> pitch, height |-> height, radius |-> radius, left |-> left]

\* A face of a swept solid: a cap (planar, normal along z, at z = zlo = zhi)
\* or the side between zlo and zhi, whose section at z is the wire turned by
\* rate * (z - zref) radians.
Cap(z) == [kind |-> "cap", zlo |-> z, zhi |-> z, nz |-> TRUE,
           rate |-> Zero, zref |-> z]
Side(zlo, zhi, rate, zref) ==
    [kind |-> "side", zlo |-> zlo, zhi |-> zhi, nz |-> FALSE,
     rate |-> rate, zref |-> zref]

\* spine.makePipeShell([wire], True, True): the wire swept along the helix,
\* which turns by 2*pi per pitch, clockwise when left-handed
makePipeShell(spine, wire) ==
    LET turn == RDiv(RInt(2), spine.pitch)
        rate == IF spine.left THEN RNeg(turn) ELSE turn
    IN  [kind |-> "solid", wire |-> wire,
         faces |-> {Cap(Zero), Cap(spine.height),
                    Side(Zero, spine.height, rate, Zero)}]

\* face.mirror(fcvec([0, 0, 0]), fcvec([0, 0, 1])): z becomes -z
mirror_face(f) ==
    [f EXCEPT !.zlo = RNeg(f.zhi), !.zhi = RNeg(f.zlo),
              !.rate = RNeg(f.rate), !.zref = RNeg(f.zref)]

\* a slip of mirror: the second solid is the first one moved below z = 0,
\* with its handedness kept
mirror_keep_hand(solid) ==
    [solid EXCEPT !.faces =
        {[f EXCEPT !.zlo = RNeg(f.zhi), !.zhi = RNeg(f.zlo),
                   !.zref = RNeg(f.zhi)] : f \in solid.faces}]

mirror(solid) ==
    [solid EXCEPT !.faces = {mirror_face(f) : f \in solid.faces}]

\* face.CenterOfMass.z
center_z(f) == RMul(RHalf, RAdd(f.zlo, f.zhi))

\* small_size=0.000001
SmallSizeInverse == 1000000

on_mirror_plane(face, z) ==
    /\ face.nz
    /\ RLt(RAbs(RSub(center_z(face), z)), R(1, SmallSizeInverse))

\* makeSolid(makeShell(faces))
makeSolid(wire, faces) == [kind |-> "solid", wire |-> wire, faces |-> faces]

\* mat.move(fcvec([0, 0, dz])); solid.transformGeometry(mat)
move_face(f, dz) ==
    [f EXCEPT !.zlo = RAdd(f.zlo, dz), !.zhi = RAdd(f.zhi, dz),
              !.zref = RAdd(f.zref, dz)]

transformGeometry(solid, dz) ==
    [solid EXCEPT !.faces = {move_face(f, dz) : f \in solid.faces}]

\* --------------------------------------------------------- helicalextrusion
\* a slip of the pitch: height * np.pi / abs(angle)
helix_pitch_no_two(height, angle) == RDiv(height, RAbs(angle))

\* height * 2. * np.pi / abs(angle), as the coefficient of pi
helix_pitch(height, angle) == RDiv(RMul(height, RInt(2)), RAbs(angle))

\* a slip of the double helix: the first spine has the full height
half_height_full(height) == height

\* the height of the first spine of the double helix
half_height(height) == RMul(RHalf, height)

\* one request to the kernel, as logged by a generation call
Call(op, arg) == [op |-> op, arg |-> arg]

helicalextrusion(wire, height, angle, double_helix) ==
    LET direction == RLt(angle, Zero)
    IN  IF double_helix
        THEN LET first_spine == makeHelix(helix_pitch(height, angle),
                                          half_height(height), HelixRadius, direction)
                 first_solid == makePipeShell(first_spine, wire)
                 second_solid == mirror(first_solid)
                 all_faces == first_solid.faces \cup second_solid.faces
                 faces == {f \in all_faces : ~on_mirror_plane(f, Zero)}
                 solid == makeSolid(wire, faces)
             IN  [shape |-> transformGeometry(solid, half_height(height)),
                  calls |-> <<Call("makeHelix", first_spine),
                              Call("makePipeShell", first_solid),
                              Call("mirror", second_solid),
                              Call("makeShell", all_faces \ faces),
                              Call("makeSolid", solid),
                              Call("transformGeometry", half_height(height))>>]
        ELSE LET first_spine == makeHelix(helix_pitch(height, angle),
                                          height, HelixRadius, direction)
                 first_solid == makePipeShell(first_spine, wire)
             IN  [shape |-> first_solid,
                  calls |-> <<Call("makeHelix", first_spine),
                              Call("makePipeShell", first_solid)>>]

\* ------------------------------------------------------ the tooth objects
\* pygears: the pitch diameter d (and dw) of a tooth object after _update()
PitchDiameter(m, z) == m * z

\* pygears: phipart of a tooth object after _update(), one tooth pitch
Phipart(z) == Turn \div z

\* the tooth object before the first generation call: nothing of it is read
\* before generate_gear_shape has written it
NoGear == [z |-> 0, d |-> 0, dw |-> 0, phipart |-> 0, beta |-> 0]

\* --------------------------------------------------------------- the state
VARIABLES
    fp,           \* the feature: its family and its editable properties
    gear,         \* fp.gear / fp.rack, the tooth object
    pc,           \* where the generation call is: idle, loop, select, done
    pts,          \* the outline under assembly
    rotated_pts,  \* the copy of the tooth rotated last
    rot,          \* the rotation step of the assembly loop
    i,            \* the assembly loop's counter
    calls,        \* the kernel requests of the current generation call
    shape,        \* what the last finished generation call returned
    loc           \* the local variables of the call that its later lines read

vars == <<fp, gear, pc, pts, rotated_pts, rot, i, calls, shape, loc>>

\* The properties of a feature of one family; a property the family does
\* not have is kept at a fixed value.
Features(family) ==
    [family : {family},
     teeth : TeethValues,
     module : ModuleValues,
     height : HeightValues,
     beta : BetaValues,
     double_helix : IF family = "BevelGear" THEN {FALSE} ELSE BOOLEAN,
     simple : IF family = "InvoluteGear" THEN BOOLEAN ELSE {FALSE},
     pitch_angle : PitchAngleValues,
     has_version : IF family = "BevelGear" THEN BOOLEAN ELSE {TRUE},
     reset_origin : IF family = "BevelGear" THEN BOOLEAN ELSE {FALSE}]

NoShape == [kind |-> "none"]

\* no local variable is set
NoLocals == [set |-> {}]

Init ==
    /\ fp \in UNION {Features(f) : f \in Families}
    /\ gear = NoGear
    /\ pc = "idle"
    /\ pts = <<>>
    /\ rotated_pts = <<>>
    /\ rot = 0
    /\ i = 0
    /\ calls = <<>>
    /\ shape = NoShape
    /\ loc = NoLocals

\* the frame of a generation call that is not running
NoCall ==
    /\ pts' = <<>>
    /\ rotated_pts' = <<>>
    /\ rot' = 0
    /\ i' = 0
    /\ calls' = <<>>
    /\ shape' = NoShape
    /\ loc' = NoLocals

\* The user sets one property of the feature between two generation calls.
\* The tooth object keeps what the last call wrote into it.
Edit ==
    /\ pc \in {"idle", "done"}
    /\ \/ \E v \in TeethValues \ {fp.teeth} : fp' = [fp EXCEPT !.teeth = v]
       \/ \E v \in ModuleValues \ {fp.module} : fp' = [fp EXCEPT !.module = v]
       \/ \E v \in HeightValues \ {fp.height} : fp' = [fp EXCEPT !.height = v]
       \/ \E v \in BetaValues \ {fp.beta} : fp' = [fp EXCEPT !.beta = v]
       \/ /\ fp.family # "BevelGear"
          /\ fp' = [fp EXCEPT !.double_helix = ~fp.double_helix]
       \/ /\ fp.family = "InvoluteGear"
          /\ fp' = [fp EXCEPT !.simple = ~fp.simple]
       \/ /\ fp.family = "BevelGear"
          /\ fp' = [fp EXCEPT !.reset_origin = ~fp.reset_origin]
    /\ pc' = "idle"
    /\ NoCall
    /\ UNCHANGED gear

\* ------------------------------------------------------- outline assembly
\* InvoluteGear.generate_gear_shape up to the assembly loop
InvoluteStart ==
    /\ pc \in {"idle", "done"}
    /\ fp.family = "InvoluteGear"
    /\ \E k \in 1..MaxCurves :
          /\ gear' = [z |-> fp.teeth,
                      d |-> PitchDiameter(fp.module, fp.teeth),
                      dw |-> PitchDiameter(fp.module, fp.teeth),
                      phipart |-> Phipart(fp.teeth),
                      beta |-> fp.beta]
          /\ pts' = ToothPoints(k)
          /\ rotated_pts' = ToothPoints(k)
    /\ rot' = (-gear'.phipart) % Turn
    /\ i' = 0
    /\ calls' = <<>>
    /\ shape' = NoShape
    /\ pc' = "loop"
    /\ UNCHANGED <<fp, loc>>

\* CycloidGear.generate_gear_shape up to the assembly loop
CycloidStart ==
    /\ pc \in {"idle", "done"}
    /\ fp.family = "CycloidGear"
    /\ \E k \in 1..MaxCurves :
          /\ gear' = [z |-> fp.teeth,
                      d |-> PitchDiameter(fp.module, fp.teeth),
                      dw |-> PitchDiameter(fp.module, fp.teeth),
                      phipart |-> Phipart(fp.teeth),
                      beta |-> 0]
          /\ pts' = ToothPoints(k)
          /\ rotated_pts' = ToothPoints(k)
    /\ rot' = (-gear'.phipart) % Turn
    /\ i' = 0
    /\ calls' = <<>>
    /\ shape' = NoShape
    /\ pc' = "loop"
    /\ UNCHANGED <<fp, loc>>

\* a slip of the bevel step: np.pi / fp.teeth
bevel_step_half(teeth) == (Turn \div (2 * teeth)) % Turn

\* rotation3D(2 * np.pi / fp.teeth)
bevel_step(teeth) == (Turn \div teeth) % Turn

\* BevelGear.generate_gear_shape up to the assembly loop
BevelStart ==
    /\ pc \in {"idle", "done"}
    /\ fp.family = "BevelGear"
    /\ \E k \in 1..MaxCurves :
          /\ gear' = [z |-> fp.teeth,
                      d |-> PitchDiameter(fp.module, fp.teeth),
                      dw |-> PitchDiameter(fp.module, fp.teeth),
                      phipart |-> Phipart(fp.teeth),
                      beta |-> 0]
          /\ pts' = ToothPoints(k)
          /\ rotated_pts' = ToothPoints(k)
    /\ rot' = bevel_step(fp.teeth)
    /\ i' = 0
    /\ calls' = <<>>
    /\ shape' = NoShape
    /\ pc' = "loop"
    /\ UNCHANGED <<fp, loc>>

\* rotated_pts = list(map(rot, rotated_pts))
rotate_all(step, curves) == [c \in 1..Len(curves) |-> rotation(step, curves[c])]

\* a slip of the connector: its end is taken from the outline's first copy,
\* not from the copy rotated last
connector_to_start(outline, next_copy) ==
    segment(last_point(outline[Len(outline)]), first_point(outline[1]))

\* np.array([pts[-1][-1], rotated_pts[0][0]])
connector(outline, next_copy) ==
    segment(last_point(outline[Len(outline)]), first_point(next_copy[1]))

\* a slip of the loop: range(fp.gear.z)
loop_count_all(z) == z

\* the number of passes of the loop: range(fp.gear.z - 1)
loop_count(z) == z - 1

\* one pass of the assembly loop
AssembleStep ==
    /\ pc = "loop"
    /\ i < loop_count(gear.z)
    /\ rotated_pts' = rotate_all(rot, rotated_pts)
    /\ pts' = Append(pts, connector(pts, rotated_pts')) \o rotated_pts'
    /\ i' = i + 1
    /\ UNCHANGED <<fp, gear, pc, rot, calls, shape, loc>>

\* pts.append(np.array([pts[-1][-1], pts[0][0]])) after the loop
CloseOutline ==
    /\ pc = "loop"
    /\ ~(i < loop_count(gear.z))
    /\ pts' = Append(pts, connector(pts, pts))
    /\ pc' = "select"
    /\ UNCHANGED <<fp, gear, rotated_pts, rot, i, calls, shape, loc>>

\* -------------------------------------------------------- solid selection
\* height * np.tan(beta) * 2 / d
helix_angle(height, beta, d) ==
    RDiv(RMul(RMul(RInt(height), TanDeg(beta)), RInt(2)), RInt(d))

\* a slip of the selection: beta is not tested before the helical sweep
involute_shape_untested(f, g, outline) ==
    LET wi == Wire(outline)
    IN  IF f.height = 0
        THEN [shape |-> wi, calls |-> <<Call("Wire", wi)>>]
        ELSE LET he == helicalextrusion(wi, RInt(f.height),
                           helix_angle(f.height, g.beta, g.d), f.double_helix)
             IN  [shape |-> he.shape,
                  calls |-> <<Call("Wire", wi)>> \o he.calls]

\* InvoluteGear.generate_gear_shape from "if not fp.simple" on
involute_shape(f, g, outline) ==
    IF ~f.simple
    THEN LET wi == Wire(outline)
         IN  IF f.height = 0
             THEN [shape |-> wi, calls |-> <<Call("Wire", wi)>>]
             ELSE IF f.beta = 0
             THEN [shape |-> extrude(wi, RInt(f.height)),
                   calls |-> <<Call("Wire", wi), Call("Face", wi),
                               Call("extrude", RInt(f.height))>>]
             ELSE LET he == helicalextrusion(wi, RInt(f.height),
                                helix_angle(f.height, g.beta, g.d), f.double_helix)
                  IN  [shape |-> he.shape,
                       calls |-> <<Call("Wire", wi)>> \o he.calls]
    ELSE LET rw == R(g.dw, 2)
         IN  [shape |-> makeCylinder(rw, RInt(f.height)),
              calls |-> <<Call("makeCylinder", rw)>>]

InvoluteSelect ==
    /\ pc = "select"
    /\ fp.family = "InvoluteGear"
    /\ shape' = involute_shape(fp, gear, pts).shape
    /\ calls' = involute_shape(fp, gear, pts).calls
    /\ pc' = "done"
    /\ UNCHANGED <<fp, gear, pts, rotated_pts, rot, i, loc>>

\* a slip of the selection: beta is tested before height
cycloid_shape_beta_first(f, g, outline) ==
    LET wi == Wire(outline)
    IN  IF f.beta = 0
        THEN [shape |-> extrude(wi, RInt(f.height)),
              calls |-> <<Call("Wire", wi), Call("Face", wi),
                          Call("extrude", RInt(f.height))>>]
        ELSE IF f.height = 0
        THEN [shape |-> wi, calls |-> <<Call("Wire", wi)>>]
        ELSE LET he == helicalextrusion(wi, RInt(f.height),
                           helix_angle(f.height, f.beta, g.d), f.double_helix)
             IN  [shape |-> he.shape,
                  calls |-> <<Call("Wire", wi)>> \o he.calls]

\* CycloidGear.generate_gear_shape from "wi = Wire(wi)" on
cycloid_shape(f, g, outline) ==
    LET wi == Wire(outline)
    IN  IF f.height = 0
        THEN [shape |-> wi, calls |-> <<Call("Wire", wi)>>]
        ELSE IF f.beta = 0
        THEN [shape |-> extrude(wi, RInt(f.height)),
              calls |-> <<Call("Wire", wi), Call("Face", wi),
                          Call("extrude", RInt(f.height))>>]
        ELSE LET he == helicalextrusion(wi, RInt(f.height),
                           helix_angle(f.height, f.beta, g.d), f.double_helix)
             IN  [shape |-> he.shape,
                  calls |-> <<Call("Wire", wi)>> \o he.calls]

CycloidSelect ==
    /\ pc = "select"
    /\ fp.family = "CycloidGear"
    /\ shape' = cycloid_shape(fp, gear, pts).shape
    /\ calls' = cycloid_shape(fp, gear, pts).calls
    /\ pc' = "done"
    /\ UNCHANGED <<fp, gear, pts, rotated_pts, rot, i, loc>>

\* InvoluteGearRack.generate_gear_shape from "pol = Wire(makePolygon(...))" on
rack_shape(f, polygon) ==
    LET pol == Wire(<<polygon>>)
        h == RInt(f.height)
    IN  IF f.height = 0
        THEN [shape |-> pol, calls |-> <<Call("Wire", pol)>>]
        ELSE IF f.beta = 0
        THEN [shape |-> extrude(pol, h),
              calls |-> <<Call("Wire", pol), Call("Face", pol), Call("extrude", h)>>]
        ELSE IF f.double_helix
        THEN LET pol2 == translate(pol, RMul(RMul(TanDeg(f.beta), h), RHalf),
                                   RMul(h, RHalf))
                 pol3 == translate(pol, Zero, h)
                 loft == makeLoft(<<pol, pol2, pol3>>, TRUE, TRUE)
             IN  [shape |-> loft,
                  calls |-> <<Call("Wire", pol), Call("makeLoft", loft)>>]
        ELSE LET pol2 == translate(pol, RMul(TanDeg(f.beta), h), h)
                 loft == makeLoft(<<pol, pol2>>, TRUE, FALSE)
             IN  [shape |-> loft,
                  calls |-> <<Call("Wire", pol), Call("makeLoft", loft)>>]

\* InvoluteGearRack.generate_gear_shape
RackGenerate ==
    /\ pc \in {"idle", "done"}
    /\ fp.family = "InvoluteGearRack"
    /\ gear' = [z |-> fp.teeth, d |-> 0, dw |-> 0, phipart |-> 0, beta |-> fp.beta]
    /\ pts' = <<RackPoints(fp.teeth)>>
    /\ rotated_pts' = <<>>
    /\ rot' = 0
    /\ i' = 0
    /\ shape' = rack_shape(fp, RackPoints(fp.teeth)).shape
    /\ calls' = rack_shape(fp, RackPoints(fp.teeth)).calls
    /\ pc' = "done"
    /\ UNCHANGED <<fp, loc>>

\* module * z / 2 / np.tan(pitch_angle): the distance from the cone apex to
\* the pitch circle
bevel_scale(f, g) == RDiv(R(f.module * g.z, 2), TanDeg(f.pitch_angle))

\* scale_0 and scale_1, by the presence of the "version" property
bevel_scale_0(f, g) ==
    IF ~f.has_version
    THEN RSub(bevel_scale(f, g), R(f.height, 2))
    ELSE RSub(bevel_scale(f, g), RInt(f.height))

bevel_scale_1(f, g) ==
    IF ~f.has_version
    THEN RAdd(bevel_scale(f, g), R(f.height, 2))
    ELSE bevel_scale(f, g)

\* a slip of linspace: the end point is left out (endpoint=False)
linspace_open(lo, hi, n, j) == RAdd(lo, RMul(R(j, n), RSub(hi, lo)))

\* np.linspace(lo, hi, n)[j], j = 0..n-1
linspace(lo, hi, n, j) == RAdd(lo, RMul(R(j, n - 1), RSub(hi, lo)))

\* beta * pi / 180 * sin(pi / 4) / sin(pitch_angle * pi / 180), kept by the
\* two angles it is computed from
bevel_angle(f) == [beta |-> f.beta, pitch_angle |-> f.pitch_angle]

NoAngle == [beta |-> 0, pitch_angle |-> 0]

\* make_bspline_wire([scale * p for p in pts])
scaled_wire(scale, outline) ==
    [kind |-> "wire", curves |-> outline, scale |-> scale,
     rotated |-> FALSE, phi |-> NoAngle, norm |-> scale]

\* make_bspline_wire of the points spherical_rot(p, angle) for p in scale * pt:
\* each point is turned by sqrt(norm(p)) * angle, the profile points lying
\* on the unit sphere
spherical_wire(scale, angle, outline) ==
    [kind |-> "wire", curves |-> outline, scale |-> scale,
     rotated |-> TRUE, phi |-> angle, norm |-> scale]

bevel_wires(f, g, outline) ==
    IF f.beta = 0
    THEN <<scaled_wire(bevel_scale_0(f, g), outline),
           scaled_wire(bevel_scale_1(f, g), outline)>>
    ELSE [j \in 1..NumStations |->
            spherical_wire(linspace(bevel_scale_0(f, g), bevel_scale_1(f, g),
                                    NumStations, j - 1),
                           bevel_angle(f), outline)]

\* BevelGear.generate_gear_shape from "wires = []" on
bevel_shape(f, g, outline) ==
    LET loft == makeLoft(bevel_wires(f, g, outline), TRUE, FALSE)
    IN  IF f.reset_origin
        THEN [shape |-> [kind |-> "transformed", of |-> loft, a33 |-> -1,
                         dz |-> bevel_scale_1(f, g)],
              calls |-> <<Call("makeLoft", loft),
                          Call("transformGeometry", bevel_scale_1(f, g))>>]
        ELSE [shape |-> loft, calls |-> <<Call("makeLoft", loft)>>]

BevelSelect ==
    /\ pc = "select"
    /\ fp.family = "BevelGear"
    /\ shape' = bevel_shape(fp, gear, pts).shape
    /\ calls' = bevel_shape(fp, gear, pts).calls
    /\ pc' = "done"
    /\ UNCHANGED <<fp, gear, pts, rotated_pts, rot, i, loc>>

\* ------------------------------------------------------- the specification
Next ==
    \/ Edit
    \/ InvoluteStart
    \/ CycloidStart
    \/ BevelStart
    \/ AssembleStep
    \/ CloseOutline
    \/ InvoluteSelect
    \/ CycloidSelect
    \/ RackGenerate
    \/ BevelSelect

Spec == Init /\ [][Next]_vars

\* ============================================================== properties
Done == pc = "done"

OpsCalled == {calls[j].op : j \in 1..Len(calls)}

CallsOf(op) == {j \in 1..Len(calls) : calls[j].op = op}

\* every kernel request that builds a face or a solid
SolidOps == {"Face", "extrude", "makeHelix", "makePipeShell", "mirror",
             "makeShell", "makeSolid", "transformGeometry", "makeLoft",
             "makeCylinder"}

WireOnly ==
    /\ shape.kind = "wire"
    /\ shape.curves = pts
    /\ OpsCalled \cap SolidOps = {}

\* C1 as stated: a finished generation call of InvoluteGear, CycloidGear or
\* InvoluteGearRack with height = 0 returned the bare outline wire and
\* requested no face and no solid, whatever the other properties are.
C1_WireOnlyAnyFlag ==
    (Done /\ fp.family \in {"InvoluteGear", "CycloidGear", "InvoluteGearRack"}
          /\ fp.height = 0)
    => WireOnly

\* C1 amended: the same, for an InvoluteGear only when its simple property
\* is not set (a simple InvoluteGear returns the pitch cylinder).
C1_WireOnly ==
    (Done /\ fp.family \in {"InvoluteGear", "CycloidGear", "InvoluteGearRack"}
          /\ fp.height = 0
          /\ ~fp.simple)
    => WireOnly

C1_Witness ==
    /\ Done
    /\ fp.family = "InvoluteGear"
    /\ fp.height = 0
    /\ fp.beta # 0
    /\ fp.double_helix
    /\ ~fp.simple
    /\ shape.kind = "wire"

StraightExtrusion ==
    /\ shape.kind = "extrusion"
    /\ shape.face = Wire(pts)
    /\ shape.dx = Zero
    /\ shape.dy = Zero
    /\ shape.dz = RInt(fp.height)
    /\ CallsOf("extrude") # {}
    /\ OpsCalled \cap {"makeHelix", "makePipeShell"} = {}

\* C2 as stated: a finished generation call of InvoluteGear or CycloidGear
\* with height > 0 and beta = 0 returned the planar face of the outline
\* extruded along z by height, and requested no helical sweep.
C2_StraightAnyFlag ==
    (Done /\ fp.family \in {"InvoluteGear", "CycloidGear"}
          /\ fp.height > 0 /\ fp.beta = 0)
    => StraightExtrusion

\* C2 amended: the same, for an InvoluteGear only when simple is not set.
C2_Straight ==
    (Done /\ fp.family \in {"InvoluteGear", "CycloidGear"}
          /\ fp.height > 0 /\ fp.beta = 0 /\ ~fp.simple)
    => StraightExtrusion

C2_Witness ==
    /\ Done
    /\ fp.family = "CycloidGear"
    /\ fp.height > 0
    /\ fp.beta = 0
    /\ fp.double_helix
    /\ shape.kind = "extrusion"

\* the angle height * tan(beta) * 2 / d of the feature, d being the pitch
\* diameter of its tooth object
SweepAngle ==
    R(2 * fp.height * TanDeg(fp.beta).n, gear.d * TanDeg(fp.beta).d)

IsSweepAngle(x) ==
    RMul(x, RInt(gear.d)) = RMul(RInt(2 * fp.height), TanDeg(fp.beta))

\* one helical sweep over the full height along a helix of the pitch
\* height * 2 * pi / |angle|, left-handed exactly when angle < 0
OneFullSweep ==
    /\ Cardinality(CallsOf("makePipeShell")) = 1
    /\ Cardinality(CallsOf("makeHelix")) = 1
    /\ "mirror" \notin OpsCalled
    /\ \A j \in CallsOf("makeHelix") :
          LET spine == calls[j].arg
              angle == SweepAngle
          IN  /\ IsSweepAngle(angle)
              /\ spine.height = RInt(fp.height)
              /\ RMul(spine.pitch, RAbs(angle)) = RInt(2 * fp.height)
              /\ spine.left <=> angle.n < 0
    /\ \A j \in CallsOf("makePipeShell") : shape = calls[j].arg

\* C3 as stated: a finished generation call of InvoluteGear or CycloidGear
\* with height > 0, beta # 0 and double_helix unset issued exactly one
\* helical sweep, over the full height, of pitch height*2*pi/|angle| with
\* angle = height*tan(beta)*2/d, left-handed exactly when angle < 0.
C3_OneSweepAnyFlag ==
    (Done /\ fp.family \in {"InvoluteGear", "CycloidGear"}
          /\ fp.height > 0 /\ fp.beta # 0 /\ ~fp.double_helix)
    => OneFullSweep

\* C3 amended: the same, for an InvoluteGear only when simple is not set.
C3_OneSweep ==
    (Done /\ fp.family \in {"InvoluteGear", "CycloidGear"}
          /\ fp.height > 0 /\ fp.beta # 0 /\ ~fp.double_helix /\ ~fp.simple)
    => OneFullSweep

C3_Witness ==
    /\ Done
    /\ fp.family = "InvoluteGear"
    /\ fp.height > 1
    /\ fp.beta < 0
    /\ ~fp.double_helix
    /\ ~fp.simple
    /\ \E j \in CallsOf("makeHelix") : calls[j].arg.left

\* helicalextrusion is reached with double_helix set
DoubleHelixCase ==
    /\ Done
    /\ fp.family \in {"InvoluteGear", "CycloidGear"}
    /\ ~fp.simple
    /\ fp.height > 0
    /\ fp.beta # 0
    /\ fp.double_helix

\* g is f reflected through the plane z = 0
IsMirrorImage(g, f) ==
    /\ g.kind = f.kind
    /\ g.zlo = RNeg(f.zhi)
    /\ g.zhi = RNeg(f.zlo)
    /\ RAdd(g.rate, f.rate) = Zero
    /\ g.zref = RNeg(f.zref)

\* g is f moved along z by dz
IsMoved(g, f, dz) ==
    /\ g.kind = f.kind
    /\ g.zlo = RAdd(f.zlo, dz)
    /\ g.zhi = RAdd(f.zhi, dz)
    /\ g.rate = f.rate
    /\ g.zref = RAdd(f.zref, dz)

\* f is planar and lies in the plane z = 0
LiesInMirrorPlane(f) == f.kind = "cap" /\ f.zlo = Zero /\ f.zhi = Zero

\* C4: when helicalextrusion is reached with height > 0, beta # 0 and
\* double_helix set, one helix of height/2 is swept once, the second solid
\* is its mirror image through z = 0 (so of opposite handedness), exactly the
\* faces lying in the mirror plane are left out of the re-solidified shell,
\* and the result, moved by height/2, spans z from 0 to height.
C4_DoubleHelix ==
    DoubleHelixCase =>
       /\ Cardinality(CallsOf("makeHelix")) = 1
       /\ Cardinality(CallsOf("makePipeShell")) = 1
       /\ Cardinality(CallsOf("mirror")) = 1
       /\ Cardinality(CallsOf("makeShell")) = 1
       /\ Cardinality(CallsOf("makeSolid")) = 1
       /\ \A j \in CallsOf("makeHelix") :
             RAdd(calls[j].arg.height, calls[j].arg.height) = RInt(fp.height)
       /\ \A a \in CallsOf("makePipeShell"), b \in CallsOf("mirror"),
             c \in CallsOf("makeShell"), d \in CallsOf("makeSolid") :
             LET first == calls[a].arg.faces
                 second == calls[b].arg.faces
                 removed == calls[c].arg
                 kept == calls[d].arg.faces
             IN  /\ \A f \in first :
                       /\ RLe(Zero, f.zlo)
                       /\ RLe(f.zhi, R(fp.height, 2))
                       /\ \E g \in second : IsMirrorImage(g, f)
                 /\ \A g \in second : \E f \in first : IsMirrorImage(g, f)
                 /\ \E f \in first : f.kind = "side" /\ f.rate # Zero
                 /\ removed = {f \in first \cup second : LiesInMirrorPlane(f)}
                 /\ removed # {}
                 /\ kept = (first \cup second) \ removed
                 /\ \A f \in kept : \E g \in shape.faces :
                       IsMoved(g, f, R(fp.height, 2))
                 /\ \A g \in shape.faces : \E f \in kept :
                       IsMoved(g, f, R(fp.height, 2))
       /\ \A g \in shape.faces : RLe(Zero, g.zlo) /\ RLe(g.zhi, RInt(fp.height))
       /\ \E g \in shape.faces : g.zlo = Zero
       /\ \E g \in shape.faces : g.zhi = RInt(fp.height)
       /\ \A g \in shape.faces :
             ~(g.kind = "cap" /\ g.zlo = R(fp.height, 2))

C4_Witness ==
    /\ DoubleHelixCase
    /\ fp.family = "CycloidGear"
    /\ fp.height = 1
    /\ Cardinality(shape.faces) = 4

\* the number of sections compared on each side of the mid-height plane
Samples == 4

\* the turn of the section of a swept solid at height z
SectionTurns(solid, z) ==
    {RMul(f.rate, RSub(z, f.zref)) :
        f \in {g \in solid.faces :
                  g.kind = "side" /\ RLe(g.zlo, z) /\ RLe(z, g.zhi)}}

\* the y offset of the section of a ruled loft at height z
LoftOffsets(loft, z) ==
    {RAdd(loft.profiles[n].dy,
          RMul(RSub(loft.profiles[n + 1].dy, loft.profiles[n].dy),
               RDiv(RSub(z, loft.profiles[n].dz),
                    RSub(loft.profiles[n + 1].dz, loft.profiles[n].dz)))) :
        n \in {m \in 1..(Len(loft.profiles) - 1) :
                  /\ RLe(loft.profiles[m].dz, z)
                  /\ RLe(z, loft.profiles[m + 1].dz)}}

\* the distance j/Samples * height/2 from the mid-height plane
SampleAt(j) == RMul(R(j, Samples), R(fp.height, 2))

RackDoubleHelixCase ==
    /\ Done
    /\ fp.family = "InvoluteGearRack"
    /\ fp.height > 0
    /\ fp.beta # 0
    /\ fp.double_helix

\* C5: the double-helix solid is symmetric about z = height/2: its section
\* at height/2 - t and its section at height/2 + t are the outline turned
\* (gear) or shifted (rack) by the same amount, for every sampled t in
\* [0, height/2].
C5_MidPlaneSymmetry ==
    /\ DoubleHelixCase =>
          \A j \in 0..Samples :
             LET lower == SectionTurns(shape, RSub(R(fp.height, 2), SampleAt(j)))
                 upper == SectionTurns(shape, RAdd(R(fp.height, 2), SampleAt(j)))
             IN  Cardinality(lower) = 1 /\ lower = upper
    /\ RackDoubleHelixCase =>
          \A j \in 0..Samples :
             LET lower == LoftOffsets(shape, RSub(R(fp.height, 2), SampleAt(j)))
                 upper == LoftOffsets(shape, RAdd(R(fp.height, 2), SampleAt(j)))
             IN  Cardinality(lower) = 1 /\ lower = upper

C5_Witness ==
    /\ DoubleHelixCase
    /\ fp.height = 2
    /\ SectionTurns(shape, Zero) # {Zero}
    /\ SectionTurns(shape, Zero) = SectionTurns(shape, RInt(2))

RackSolidCase == Done /\ fp.family = "InvoluteGearRack" /\ fp.height > 0

\* w is the rack polygon moved by (0, dy, dz)
IsRackCopy(w, dy, dz) ==
    /\ w.kind = "wire"
    /\ w.curves = pts
    /\ w.dy = dy
    /\ w.dz = dz

\* tan(beta) * height / parts
RackShift(parts) ==
    R(TanDeg(fp.beta).n * fp.height, TanDeg(fp.beta).d * parts)

\* the loft of the single-helix and of the double-helix rack
RackLoft ==
    /\ shape.kind = "loft"
    /\ Cardinality(CallsOf("makeLoft")) = 1
    /\ OpsCalled \cap {"Face", "extrude"} = {}
    /\ IsRackCopy(shape.profiles[1], Zero, Zero)
    /\ ~fp.double_helix =>
          /\ Len(shape.profiles) = 2
          /\ IsRackCopy(shape.profiles[2], RackShift(1), RInt(fp.height))
    /\ fp.double_helix =>
          /\ Len(shape.profiles) = 3
          /\ IsRackCopy(shape.profiles[2], RackShift(2), R(fp.height, 2))
          /\ IsRackCopy(shape.profiles[3], Zero, RInt(fp.height))

\* C6 as stated: a finished generation call of InvoluteGearRack with
\* height > 0 returned a loft: of 1 copy of the rack polygon when beta = 0,
\* of 2 copies when beta # 0 without double_helix, of 3 copies with it.
C6_RackAlwaysLoft ==
    RackSolidCase =>
       /\ shape.kind = "loft"
       /\ fp.beta = 0 =>
             /\ Len(shape.profiles) = 1
             /\ IsRackCopy(shape.profiles[1], Zero, Zero)
       /\ fp.beta # 0 => RackLoft

\* C6 amended: with beta = 0 the solid is the face of the one rack polygon
\* extruded along z by height and no loft is requested (whatever
\* double_helix is); with beta # 0 it is the loft of 2 copies (no
\* double_helix: the second moved by (0, tan(beta)*height, height)) or of 3
\* copies (double_helix: the middle one moved by
\* (0, tan(beta)*height/2, height/2), the end one by (0, 0, height)).
C6_RackSolid ==
    RackSolidCase =>
       /\ fp.beta = 0 =>
             /\ shape.kind = "extrusion"
             /\ IsRackCopy(shape.face, Zero, Zero)
             /\ shape.dx = Zero /\ shape.dy = Zero
             /\ shape.dz = RInt(fp.height)
             /\ "makeLoft" \notin OpsCalled
       /\ fp.beta # 0 => RackLoft

C6_Witness ==
    /\ RackSolidCase
    /\ fp.beta = -45
    /\ fp.double_helix
    /\ fp.height = 1
    /\ Len(shape.profiles) = 3
    /\ shape.profiles[2].dy = R(-1, 2)

BevelCase == Done /\ fp.family = "BevelGear"

\* the loft of a bevel gear, before reset_origin moves it
BevelLoft == IF shape.kind = "transformed" THEN shape.of ELSE shape

\* the distance from the cone apex to the pitch circle
ApexToPitchCircle ==
    RDiv(R(fp.module * fp.teeth, 2), TanDeg(fp.pitch_angle))

\* C7: a finished generation call of BevelGear requested one loft, of 2
\* scaled copies of the outline when beta = 0 and of 20 when beta # 0; the
\* copies are equally spaced in scale, from scale_0 to scale_1 = scale_0 +
\* height, both placed by the same apex-to-pitch-circle distance; with
\* beta # 0 every copy is spherically rotated with one and the same angle.
C7_BevelLoft ==
    BevelCase =>
       LET p == BevelLoft.profiles
           n == Len(p)
       IN  /\ BevelLoft.kind = "loft"
           /\ Cardinality(CallsOf("makeLoft")) = 1
           /\ n = IF fp.beta = 0 THEN 2 ELSE 20
           /\ RSub(p[n].scale, p[1].scale) = RInt(fp.height)
           /\ fp.has_version => p[n].scale = ApexToPitchCircle
           /\ ~fp.has_version =>
                 RAdd(p[1].scale, p[n].scale) = RAdd(ApexToPitchCircle, ApexToPitchCircle)
           /\ \A m \in 1..(n - 1) :
                 RSub(p[m + 1].scale, p[m].scale) = R(fp.height, n - 1)
           /\ \A m \in 1..n :
                 /\ p[m].curves = pts
                 /\ p[m].rotated <=> fp.beta # 0
                 /\ p[m].phi = p[1].phi
           /\ fp.beta # 0 =>
                 p[1].phi = [beta |-> fp.beta, pitch_angle |-> fp.pitch_angle]

C7_Witness ==
    /\ BevelCase
    /\ fp.beta # 0
    /\ fp.height = 2
    /\ ~fp.has_version
    /\ Len(BevelLoft.profiles) = 20
    /\ BevelLoft.profiles[2].scale # BevelLoft.profiles[1].scale

\* the outline of an involute, cycloid or bevel gear is assembled
AssembledCase ==
    /\ pc \in {"select", "done"}
    /\ fp.family \in {"InvoluteGear", "CycloidGear", "BevelGear"}

\* the curve turned n times by the step of the loop
Turned(curve, n) ==
    [j \in 1..Len(curve) |-> [id |-> curve[j].id, a |-> (n * rot) % Turn]]

\* C8: for a profile of k curves and z >= 1 teeth the loop has rotated the
\* profile z - 1 times, and the outline holds, for c = 0..z-1 in this
\* order, the k curves of the profile rotated c times followed by one
\* two-point segment (a connector, the closing segment after copy z-1):
\* z * k tooth curves and z segments.
C8_OutlineLayout ==
    (AssembledCase /\ fp.teeth >= 1) =>
       LET k == Len(rotated_pts)
           z == fp.teeth
       IN  /\ k >= 1
           /\ i = z - 1
           /\ Len(pts) = z * k + z
           /\ \A c \in 0..(z - 1) :
                 /\ \A j \in 1..k :
                       pts[c * (k + 1) + j] = Turned(ToothPoints(k)[j], c)
                 /\ Len(pts[c * (k + 1) + k + 1]) = 2
           /\ \A j \in 1..k : rotated_pts[j] = Turned(ToothPoints(k)[j], z - 1)

C8_Witness ==
    /\ AssembledCase
    /\ fp.teeth = 3
    /\ Len(rotated_pts) = 2
    /\ Len(pts) = 9
    /\ pts[7][1].a # pts[4][1].a

\* the assembly of the outline has started
AssemblingCase ==
    /\ pc \in {"loop", "select", "done"}
    /\ fp.family \in {"InvoluteGear", "CycloidGear", "BevelGear"}

\* C9: at every step of the assembly every curve of the outline starts at
\* the very point where the curve before it ends; so each connector starts
\* at the last point of the copy before it and ends at the first point of
\* the copy after it. Once closed, the closing segment ends at the first
\* point of copy 0.
C9_NoGap ==
    AssemblingCase =>
       LET k == Len(rotated_pts)
       IN  /\ pc = "loop" => Len(pts) = (i + 1) * k + i
           /\ \A n \in 1..(Len(pts) - 1) :
                 last_point(pts[n]) = first_point(pts[n + 1])
           /\ \A c \in 1..i :
                 /\ Len(pts[c * (k + 1)]) = 2
                 /\ pts[c * (k + 1)][1] = last_point(pts[c * (k + 1) - 1])
                 /\ c * (k + 1) < Len(pts) =>
                       pts[c * (k + 1)][2] = first_point(pts[c * (k + 1) + 1])
           /\ pc # "loop" =>
                 /\ Len(pts[Len(pts)]) = 2
                 /\ last_point(pts[Len(pts)]) = first_point(pts[1])

C9_Witness ==
    /\ AssemblingCase
    /\ pc = "loop"
    /\ i = 2
    /\ Len(pts[3]) = 2
    /\ pts[3][2].a # pts[3][1].a

\* C10: the loop's rotation step times teeth is a whole turn and no smaller
\* multiple of it is: one more rotation of the copy rotated last puts its
\* first point back on the first point of tooth 0.
C10_WholeTurn ==
    (AssembledCase /\ fp.teeth >= 1) =>
       /\ (fp.teeth * rot) % Turn = 0
       /\ \A c \in 1..(fp.teeth - 1) : (c * rot) % Turn # 0
       /\ first_point(rotation(rot, rotated_pts[1])) = first_point(pts[1])
       /\ (fp.family = "BevelGear" /\ fp.teeth > 1) => rot * fp.teeth = Turn
       /\ fp.family # "BevelGear" => rot = (-gear.phipart) % Turn

C10_Witness ==
    /\ AssembledCase
    /\ fp.family = "BevelGear"
    /\ fp.teeth = 3
    /\ first_point(rotated_pts[1]) # first_point(pts[1])
    /\ first_point(rotation(rot, rotated_pts[1])) = first_point(pts[1])

\* =========================================================================
\* HypoCycloidGear: the cam disks of a cycloidal drive
\* =========================================================================
\* Lengths of this family are whole 1/1000 mm, pressure angles whole 1/1000
\* degree, the scan's angles whole degrees.

\* obj.pin_circle_radius, obj.roller_diameter, obj.eccentricity,
\* obj.pressure_angle_offset and obj.hole_radius as the constructor sets them
PinCircleRadius == 66000
RollerDiameter == 3000
Eccentricity == 1500
PressureAngleOffset == 10
HoleRadius == 30000

\* minAngle = -1.0, maxAngle = -1.0: the mark of an angle not found yet
NotFound == -1

\* the end of range(0, 180)
ScanEnd == 180

\* calc_pressure_angle(p, d, n, i * math.pi / 180.) for i = 0, 1, ..., 179,
\* rounded to 1/1000 degree. r3 = p * n is the pin circle radius for every
\* n, and the quotient does not depend on it: the table holds for every
\* feature.
PressureAngleTable ==
    <<90000, 86588, 83191, 79822, 76496, 73223, 70014, 66880, 63826, 60859,
      57982, 55198, 52509, 49913, 47411, 45000, 42678, 40442, 38289, 36215,
      34217, 32291, 30434, 28641, 26910, 25237, 23618, 22052, 20533, 19061,
      17632, 16244, 14894, 13580, 12301, 11053, 9836, 8648, 7486, 6351,
      5239, 4150, 3083, 2036, 1009, 0, -991, -1966, -2925, -3870,
      -4799, -5716, -6619, -7511, -8390, -9258, -10116, -10964, -11801, -12630,
      -13449, -14261, -15064, -15859, -16646, -17427, -18201, -18968, -19728, -20483,
      -21232, -21975, -22713, -23446, -24173, -24896, -25614, -26328, -27037, -27743,
      -28444, -29141, -29835, -30525, -31212, -31895, -32575, -33252, -33925, -34596,
      -35264, -35930, -36592, -37252, -37910, -38565, -39218, -39869, -40517, -41163,
      -41808, -42450, -43090, -43729, -44365, -45000, -45633, -46265, -46894, -47523,
      -48150, -48775, -49399, -50021, -50642, -51262, -51881, -52498, -53114, -53729,
      -54343, -54956, -55567, -56178, -56788, -57396, -58004, -58611, -59217, -59822,
      -60426, -61029, -61632, -62234, -62835, -63435, -64035, -64634, -65232, -65830,
      -66427, -67023, -67619, -68214, -68809, -69404, -69997, -70591, -71183, -71776,
      -72368, -72959, -73550, -74141, -74732, -75322, -75911, -76501, -77090, -77679,
      -78267, -78855, -79443, -80031, -80619, -81206, -81793, -82380, -82967, -83554,
      -84140, -84726, -85313, -85899, -86485, -87071, -87657, -88243, -88828, -89414>>

\* calc_pressure_limit(p, d, e, n, a * math.pi / 180.) for a = 0, 1, ..., 179
\* with the pin circle radius, roller diameter and eccentricity above,
\* rounded to 1/1000 mm
PressureLimitTable ==
    <<63000, 63002, 63006, 63014, 63024, 63038, 63053, 63071, 63090, 63111,
      63133, 63156, 63180, 63204, 63228, 63253, 63278, 63302, 63327, 63351,
      63375, 63398, 63421, 63444, 63466, 63488, 63510, 63531, 63552, 63573,
      63593, 63613, 63633, 63653, 63672, 63692, 63711, 63730, 63748, 63767,
      63786, 63805, 63823, 63842, 63860, 63879, 63897, 63916, 63934, 63953,
      63972, 63990, 64009, 64028, 64047, 64066, 64085, 64104, 64123, 64142,
      64162, 64181, 64201, 64220, 64240, 64260, 64280, 64300, 64320, 64340,
      64360, 64381, 64401, 64422, 64442, 64463, 64484, 64504, 64525, 64546,
      64567, 64588, 64609, 64630, 64651, 64672, 64694, 64715, 64736, 64757,
      64778, 64800, 64821, 64842, 64863, 64884, 64905, 64926, 64947, 64968,
      64989, 65010, 65031, 65052, 65072, 65093, 65113, 65134, 65154, 65174,
      65194, 65214, 65234, 65254, 65273, 65292, 65312, 65331, 65350, 65368,
      65387, 65405, 65423, 65441, 65459, 65477, 65494, 65511, 65528, 65545,
      65561, 65578, 65594, 65609, 65625, 65640, 65655, 65670, 65684, 65699,
      65713, 65726, 65739, 65752, 65765, 65778, 65790, 65802, 65813, 65824,
      65835, 65846, 65856, 65866, 65876, 65885, 65894, 65902, 65910, 65918,
      65926, 65933, 65940, 65946, 65952, 65958, 65963, 65968, 65973, 65977,
      65981, 65985, 65988, 65991, 65993, 65995, 65997, 65998, 65999, 66000>>

calc_pressure_angle(k) == PressureAngleTable[k + 1]

\* cos is even and y enters squared: the limit at -a is the limit at a
calc_pressure_limit(a) == PressureLimitTable[Abs(a) + 1]

\* the pressure angle limits of the model, in 1/1000 degree: the
\* constructor's 50 deg, a limit the pressure angle first passes at 180 deg,
\* a limit it never passes, and a negative limit
LimitValues == {50000, 89500, 95000, -95000}

\* the locals of the scan before its first pass
ScanInit == [minAngle |-> NotFound, maxAngle |-> NotFound]

\* a slip of the scan: the first assignment is not protected
scan_step_unguarded(st, k, ang) ==
    LET x == calc_pressure_angle(k)
    IN  [minAngle |-> IF x < ang THEN k ELSE st.minAngle,
         maxAngle |-> IF x < -ang THEN k - 1 ELSE st.maxAngle]

\* one pass of "for i in range(0, 180)" with i = k
scan_step(st, k, ang) ==
    LET x == calc_pressure_angle(k)
    IN  [minAngle |-> IF x < ang /\ st.minAngle < 0 THEN k ELSE st.minAngle,
         maxAngle |-> IF x < -ang /\ st.maxAngle < 0 THEN k - 1
                      ELSE st.maxAngle]

\* the passes i = lo .. hi - 1 of the scan, in their order, from the locals st
\* (halved, to keep the evaluation shallow; minAngle is never below -1)
RECURSIVE scan_passes(_, _, _, _)
scan_passes(st, lo, hi, ang) ==
    IF hi <= lo THEN st
    ELSE IF hi = lo + 1 THEN scan_step(st, lo, ang)
    ELSE LET mid == (lo + hi) \div 2
             half == scan_passes(st, lo, mid, ang)
         IN  \* the first half is worked out before the second is entered
             IF half.minAngle >= NotFound
             THEN scan_passes(half, mid, hi, ang)
             ELSE half

\* the locals of the scan after its passes i = 0 .. k - 1
scan(k, ang) == scan_passes(ScanInit, 0, k, ang)

\* minAngle and maxAngle after the whole scan, for every limit of the model
scanned == [ang \in LimitValues |-> scan(ScanEnd, ang)]

\* ---------------------------------------------------------------- the profile
MaxSegments == 3

\* obj.disk_height and obj.pin_height as the constructor sets them
DiskHeight == 10000
PinHeight == 20000

\* half a turn, in the unit of this family's rotations: pi / n and
\* 2 * pi / n are whole numbers of units for n in 1..MaxTeeth
CamPi == LCMUpTo(MaxTeeth)

\* calc_x at the rolling angle of profile point j. Point 0 lies at rolling
\* angle 0, where calcyp is 0 and x = n * p + e - d / 2. The further points
\* stand for the values of the trigonometric formula: one inside the band of
\* the constructor's limit, one below it, one nearer to the origin than the
\* offset, one above the band.
calc_x(j) ==
    CASE j = 0 -> PinCircleRadius + Eccentricity - RollerDiameter \div 2
      [] j > 0 /\ j % 4 = 2 -> -63100
      [] j > 0 /\ j % 4 = 0 -> 65900
      [] OTHER -> 0

\* calc_y at the rolling angle of profile point j
calc_y(j) ==
    CASE j > 0 /\ j % 4 = 1 -> 64000
      [] j > 0 /\ j % 4 = 3 -> -5
      [] OTHER -> 0

\* (x**2 + y**2)**0.5, math.atan2(y, x) in degrees, for a point on an axis
to_polar(x, y) ==
    [r |-> Abs(x) + Abs(y),
     a |-> CASE y = 0 /\ x >= 0 -> 0
             [] y = 0 /\ x < 0 -> 180
             [] y > 0 -> 90
             [] OTHER -> -90]

\* r * math.cos(a), r * math.sin(a) for a direction along an axis
to_rect(r, a) ==
    CASE a = 0 -> [x |-> r, y |-> 0]
      [] a = 180 -> [x |-> -r, y |-> 0]
      [] a = 90 -> [x |-> 0, y |-> r]
      [] OTHER -> [x |-> 0, y |-> -r]

\* a slip of check_limit: a point below the band is pushed outward
check_limit_outward(x, y, maxrad, minrad, offset) ==
    LET pol == to_polar(x, y)
    IN  IF pol.r > maxrad THEN to_rect(pol.r - offset, pol.a)
        ELSE IF pol.r < minrad THEN to_rect(pol.r + offset, pol.a)
        ELSE [x |-> x, y |-> y]

check_limit(x, y, maxrad, minrad, offset) ==
    LET pol == to_polar(x, y)
    IN  IF pol.r > maxrad \/ pol.r < minrad
        THEN to_rect(pol.r - offset, pol.a)
        ELSE [x |-> x, y |-> y]

\* the profile points before the limit check, "x, y = self.calc_x(...),
\* self.calc_y(...)" for point 0 and for i = 0 .. s - 1
raw_points(s) == [j \in 1..(s + 1) |-> [x |-> calc_x(j - 1), y |-> calc_y(j - 1)]]

\* points: every profile point after check_limit, shifted by -e along x
cam_points(s, maxRadius, minRadius) ==
    [j \in 1..(s + 1) |->
        LET c == check_limit(calc_x(j - 1), calc_y(j - 1), maxRadius,
                             minRadius, PressureAngleOffset)
        IN  [x |-> c.x - Eccentricity, y |-> c.y]]

\* ----------------------------------------------------------------- the disks
\* App.Matrix(): the moves along x and the rotations about z put into it,
\* in their order
Matrix == <<>>

move(mat, x) == Append(mat, [op |-> "move", by |-> x])

rotateZ(mat, a) == Append(mat, [op |-> "rotateZ", by |-> a])

\* shape.transformGeometry(mat)
transform(sh, mat) == [kind |-> "transformed", of |-> sh, mat |-> mat]

\* the matrix of one tooth pitch about the disk's own centre
cam_matrix(n) ==
    move(rotateZ(move(Matrix, Eccentricity), (2 * CamPi) \div n), -Eccentricity)

\* "for _ in range(n): wi = wi.transformGeometry(mat); wires.append(wi)"
RECURSIVE cam_wires(_, _, _)
cam_wires(wi, mat, n) ==
    IF n = 0 THEN <<>>
    ELSE LET w == transform(wi, mat) IN <<w>> \o cam_wires(w, mat, n - 1)

\* cam = Face(Wire(wires)), cut by the centre hole
cam_face(points, n) ==
    LET face == [kind |-> "face", wires |-> cam_wires(Wire(<<points>>), cam_matrix(n), n)]
    IN  IF HoleRadius # 0
        THEN [kind |-> "cut", of |-> face, hole |-> HoleRadius, at |-> -Eccentricity]
        ELSE face

\* a slip of the secondary disk: the half pitch is added for odd n
second_matrix_odd(n) ==
    LET m1 == move(rotateZ(Matrix, CamPi), -Eccentricity)
        m2 == IF n % 2 = 1 THEN rotateZ(m1, CamPi \div n) ELSE m1
    IN  move(m2, Eccentricity)

\* the matrix of the secondary cam disk
second_matrix(n) ==
    LET m1 == move(rotateZ(Matrix, CamPi), -Eccentricity)
        m2 == IF n % 2 = 0 THEN rotateZ(m1, CamPi \div n) ELSE m1
    IN  move(m2, Eccentricity)

\* a disk of to_be_fused: the face itself or its extrusion by dz
disk(face, dz) == IF dz = 0 THEN face ELSE extrude(face, RInt(dz))

\* a slip of the z-offset: the two shifts of center_pins are exchanged
pins_z_offset_exchanged(f) ==
    LET base == -(f.pin_height \div 2)
    IN  IF ~f.center_pins THEN base
        ELSE IF f.show_disk0 /\ ~f.show_disk1 THEN base - f.disk_height \div 2
        ELSE IF ~f.show_disk0 /\ f.show_disk1 THEN base + f.disk_height \div 2
        ELSE base

\* ------------------------------------------------------------------ the pins
\* z_offset of the pins
pins_z_offset(f) ==
    LET base == -(f.pin_height \div 2)
    IN  IF ~f.center_pins THEN base
        ELSE IF f.show_disk0 /\ ~f.show_disk1 THEN base + f.disk_height \div 2
        ELSE IF ~f.show_disk0 /\ f.show_disk1 THEN base - f.disk_height \div 2
        ELSE base

\* pins = Face(pins): n + 1 circles of radius d / 2, circle k at the fraction
\* k / (n + 1) of a turn on the pin circle; then translated and extruded
pins_shape(f) ==
    LET n == f.teeth_number
        face == [kind |-> "face",
                 circles |-> [k \in 1..(n + 1) |->
                                 [radius |-> RollerDiameter \div 2,
                                  on |-> PinCircleRadius,
                                  step |-> k - 1, of |-> n + 1]],
                 dz |-> IF pins_z_offset(f) # 0 THEN pins_z_offset(f) ELSE 0]
    IN  IF f.pin_height # 0 THEN extrude(face, RInt(f.pin_height)) ELSE face

pins_calls(f) ==
    <<Call("Face", f.teeth_number + 1)>>
    \o (IF pins_z_offset(f) # 0 THEN <<Call("translate", pins_z_offset(f))>> ELSE <<>>)
    \o (IF f.pin_height # 0 THEN <<Call("extrude", RInt(f.pin_height))>> ELSE <<>>)

\* -------------------------------------------------------- the generation call
\* what a generation call ends with when a line of it raises
Raised(e) == [kind |-> "error", error |-> e]

\* what a generation call returns when it runs off its end
None == [kind |-> "None"]

\* Part.makeCompound(to_be_fused)
makeCompound(parts) == [kind |-> "compound", parts |-> parts]

\* the kernel requests of a disk of to_be_fused
disk_calls(dz) == IF dz = 0 THEN <<>> ELSE <<Call("extrude", RInt(dz))>>

\* HypoCycloidGear.generate_gear_shape: what it returns, the kernel requests
\* it makes, its locals and its profile points
hypo_generate(f) ==
    LET n == f.teeth_number
    IN  IF n = 0
        THEN \* p = b / n
             [shape |-> Raised("ZeroDivisionError"), calls |-> <<>>,
              loc |-> NoLocals, pts |-> <<>>]
        ELSE
        LET sc == scanned[f.pressure_angle_lim]
            minRadius == calc_pressure_limit(sc.minAngle)
            maxRadius == calc_pressure_limit(sc.maxAngle)
            points == cam_points(f.segment_count, maxRadius, minRadius)
            cam == cam_face(points, n)
            second_cam == transform(cam, second_matrix(n))
            disk0 == IF f.show_disk0 THEN <<disk(cam, f.disk_height)>> ELSE <<>>
            disk1 == IF f.show_disk1
                     THEN <<disk(second_cam, -f.disk_height)>> ELSE <<>>
            pins == IF f.show_pins THEN <<pins_shape(f)>> ELSE <<>>
            to_be_fused == disk0 \o disk1 \o pins
            requests ==
                <<Call("Wire", points)>>
                \o [k \in 1..n |-> Call("transformGeometry", cam_matrix(n))]
                \o <<Call("Face", n)>>
                \o (IF HoleRadius # 0 THEN <<Call("cut", HoleRadius)>> ELSE <<>>)
                \o (IF f.show_disk0 THEN disk_calls(f.disk_height) ELSE <<>>)
                \o (IF f.show_disk1
                    THEN <<Call("transformGeometry", second_matrix(n))>>
                         \o disk_calls(-f.disk_height)
                    ELSE <<>>)
                \o (IF f.show_pins THEN pins_calls(f) ELSE <<>>)
        IN  [shape |-> IF to_be_fused # <<>> THEN makeCompound(to_be_fused)
                       ELSE None,
             calls |-> IF to_be_fused # <<>>
                       THEN Append(requests, Call("makeCompound", Len(to_be_fused)))
                       ELSE requests,
             loc |-> [minAngle |-> sc.minAngle, maxAngle |-> sc.maxAngle,
                      minRadius |-> minRadius, maxRadius |-> maxRadius],
             pts |-> <<points>>]

\* the properties of a HypoCycloidGear that the model varies
HypoFeatures ==
    [family : {"HypoCycloidGear"},
     teeth_number : 0..MaxTeeth,
     pressure_angle_lim : LimitValues,
     segment_count : 1..MaxSegments,
     show_disk0 : BOOLEAN,
     show_disk1 : BOOLEAN,
     show_pins : BOOLEAN,
     center_pins : BOOLEAN,
     disk_height : {0, DiskHeight},
     pin_height : {0, PinHeight}]

HypoInit ==
    /\ fp \in HypoFeatures
    /\ gear = NoGear
    /\ pc = "idle"
    /\ pts = <<>>
    /\ rotated_pts = <<>>
    /\ rot = 0
    /\ i = 0
    /\ calls = <<>>
    /\ shape = NoShape
    /\ loc = NoLocals

\* The user sets one property of the cam between two generation calls.
HypoEdit ==
    /\ pc \in {"idle", "done"}
    /\ \/ \E v \in (0..MaxTeeth) \ {fp.teeth_number} :
             fp' = [fp EXCEPT !.teeth_number = v]
       \/ \E v \in LimitValues \ {fp.pressure_angle_lim} :
             fp' = [fp EXCEPT !.pressure_angle_lim = v]
       \/ \E v \in (1..MaxSegments) \ {fp.segment_count} :
             fp' = [fp EXCEPT !.segment_count = v]
       \/ fp' = [fp EXCEPT !.show_disk0 = ~fp.show_disk0]
       \/ fp' = [fp EXCEPT !.show_disk1 = ~fp.show_disk1]
       \/ fp' = [fp EXCEPT !.show_pins = ~fp.show_pins]
       \/ fp' = [fp EXCEPT !.center_pins = ~fp.center_pins]
       \/ fp' = [fp EXCEPT !.disk_height = DiskHeight - fp.disk_height]
       \/ fp' = [fp EXCEPT !.pin_height = PinHeight - fp.pin_height]
    /\ pc' = "idle"
    /\ NoCall
    /\ UNCHANGED gear

HypoCycloidGenerate ==
    /\ pc \in {"idle", "done"}
    /\ LET call == hypo_generate(fp)
       IN  /\ shape' = call.shape
           /\ calls' = call.calls
           /\ loc' = call.loc
           /\ pts' = call.pts
    /\ pc' = "done"
    /\ UNCHANGED <<fp, gear, rotated_pts, rot, i>>

HypoNext ==
    \/ HypoEdit
    \/ HypoCycloidGenerate

HypoSpec == HypoInit /\ [][HypoNext]_vars

\* ------------------------------------------------------ the scan, pass by pass
\* The scan of generate_gear_shape taken alone, one pass at a time, for every
\* limit of the model on a cam that shows both disks and the pins. i counts
\* the passes done: the angles visited so far are 0 .. i - 1.
ScanFeatures ==
    {f \in HypoFeatures :
        /\ f.teeth_number > 0
        /\ f.segment_count = MaxSegments
        /\ f.show_disk0 /\ f.show_disk1 /\ f.show_pins /\ f.center_pins
        /\ f.disk_height = DiskHeight
        /\ f.pin_height = PinHeight}

ScanBegin ==
    /\ fp \in ScanFeatures
    /\ gear = NoGear
    /\ pc = "idle"
    /\ pts = <<>>
    /\ rotated_pts = <<>>
    /\ rot = 0
    /\ i = 0
    /\ calls = <<>>
    /\ shape = NoShape
    /\ loc = NoLocals

\* minAngle = -1.0; maxAngle = -1.0
ScanEnter ==
    /\ pc = "idle"
    /\ loc' = ScanInit
    /\ i' = 0
    /\ pc' = "scan"
    /\ UNCHANGED <<fp, gear, pts, rotated_pts, rot, calls, shape>>

\* a slip of the loop: the counter starts over after the angle of 90 deg
ScanPassAgain ==
    /\ pc = "scan"
    /\ i < ScanEnd
    /\ loc' = scan_step(loc, i, fp.pressure_angle_lim)
    /\ i' = IF i = ScanEnd \div 2 THEN 0 ELSE i + 1
    /\ UNCHANGED <<fp, gear, pc, pts, rotated_pts, rot, calls, shape>>

\* one pass of the loop
ScanPass ==
    /\ pc = "scan"
    /\ i < ScanEnd
    /\ loc' = scan_step(loc, i, fp.pressure_angle_lim)
    /\ i' = i + 1
    /\ UNCHANGED <<fp, gear, pc, pts, rotated_pts, rot, calls, shape>>

\* minRadius and maxRadius, after the loop
ScanLeave ==
    /\ pc = "scan"
    /\ ~(i < ScanEnd)
    /\ loc' = [minAngle |-> loc.minAngle, maxAngle |-> loc.maxAngle,
               minRadius |-> calc_pressure_limit(loc.minAngle),
               maxRadius |-> calc_pressure_limit(loc.maxAngle)]
    /\ pc' = "scanned"
    /\ UNCHANGED <<fp, gear, pts, rotated_pts, rot, i, calls, shape>>

ScanNext ==
    \/ ScanEnter
    \/ ScanPass
    \/ ScanLeave

ScanSpec == ScanBegin /\ [][ScanNext]_vars

\* the angles among the first k scanned whose pressure angle is below bound
Crossings(bound, k) == {j \in 0..(k - 1) : calc_pressure_angle(j) < bound}

First(S) == CHOOSE j \in S : \A m \in S : j <= m

Scanning == pc \in {"scan", "scanned"}

\* minAngle is the first visited angle whose pressure angle is below +limit
MinAngleIsFirstCrossing ==
    LET below == Crossings(fp.pressure_angle_lim, i)
    IN  loc.minAngle = IF below = {} THEN NotFound ELSE First(below)

\* maxAngle is the angle just before the first visited angle whose pressure
\* angle is below -limit
MaxAngleIsBeforeFirstCrossing ==
    LET under == Crossings(-fp.pressure_angle_lim, i)
    IN  loc.maxAngle = IF under = {} THEN NotFound ELSE First(under) - 1

\* C12 as stated: the scan visits the angles 0, 1, ..., 180 deg, and after
\* every pass minAngle and maxAngle are the values of the first crossing of
\* +limit and of -limit among the angles visited, so no later pass has
\* overwritten them.
C12_ScanTo180 ==
    Scanning =>
        /\ pc = "scanned" => 0..(i - 1) = 0..180
        /\ MinAngleIsFirstCrossing
        /\ MaxAngleIsBeforeFirstCrossing

\* C12, corrected: the scan visits the angles 0, 1, ..., 179 deg (180 deg is
\* not visited); after every pass minAngle is the first visited angle whose
\* pressure angle is below +limit, and maxAngle is the angle just before the
\* first visited angle whose pressure angle is below -limit, neither being
\* overwritten by a later pass, provided that first crossing of -limit is
\* not at the angle 0: there the value stored is -1, the mark of "not found",
\* and the next pass overwrites it with 0.
C12_FirstCrossing ==
    Scanning =>
        LET under == Crossings(-fp.pressure_angle_lim, i)
        IN  /\ pc = "scanned" => 0..(i - 1) = 0..(ScanEnd - 1)
            /\ MinAngleIsFirstCrossing
            /\ (under = {} \/ First(under) >= 1) => MaxAngleIsBeforeFirstCrossing
            /\ (under # {} /\ First(under) = 0) =>
                  loc.maxAngle = IF i = 1 THEN NotFound ELSE 0

\* the scan is over and has passed both limits, +limit before -limit
C12_Witness ==
    /\ pc = "scanned"
    /\ Crossings(fp.pressure_angle_lim, i) # {}
    /\ Crossings(-fp.pressure_angle_lim, i) # {}
    /\ loc.minAngle = First(Crossings(fp.pressure_angle_lim, i))
    /\ loc.minAngle < loc.maxAngle
    /\ loc.maxAngle + 1 < i - 1

\* ------------------------------------------------------ properties of the cam
HypoDone == pc = "done" /\ fp.family = "HypoCycloidGear"

\* the inputs that allow no gear: no teeth, or a bevel cone of angle 0
InvalidInput ==
    \/ fp.family = "HypoCycloidGear" /\ fp.teeth_number = 0
    \/ fp.family # "HypoCycloidGear" /\ fp.teeth = 0
    \/ fp.family = "BevelGear" /\ fp.pitch_angle = 0

\* C11 as stated: a generation call on invalid input (teeth = 0, or a
\* BevelGear with pitch_angle = 0) ends in an InvalidParameter failure, and
\* no outline curve, wire or solid has been produced before it.
C11_InvalidParameter ==
    (pc = "done" /\ InvalidInput) =>
        /\ shape = Raised("InvalidParameter")
        /\ pts = <<>>
        /\ calls = <<>>

\* the profile point j before check_limit, in polar form
RawPolar(j) == to_polar(calc_x(j - 1), calc_y(j - 1))

\* the profile point j as check_limit returned it (points holds it shifted
\* by -e along x), in polar form
ClippedPolar(j) == to_polar(pts[1][j].x + Eccentricity, pts[1][j].y)

Profile == 1..(fp.segment_count + 1)

InBand(j) == loc.minRadius <= RawPolar(j).r /\ RawPolar(j).r <= loc.maxRadius

\* C13 as stated: a profile point with its radius in [minRadius, maxRadius]
\* is returned unchanged; a point outside keeps its polar angle, and its
\* radius is smaller by the offset when it was above maxRadius, larger by
\* the offset when it was below minRadius.
C13_ClipInOut ==
    (HypoDone /\ fp.teeth_number > 0) =>
        \A j \in Profile :
            /\ InBand(j) => ClippedPolar(j) = RawPolar(j)
            /\ RawPolar(j).r > loc.maxRadius =>
                  ClippedPolar(j) = [r |-> RawPolar(j).r - PressureAngleOffset,
                                     a |-> RawPolar(j).a]
            /\ (RawPolar(j).r < loc.minRadius /\ ~(RawPolar(j).r > loc.maxRadius)) =>
                  ClippedPolar(j) = [r |-> RawPolar(j).r + PressureAngleOffset,
                                     a |-> RawPolar(j).a]

\* C13, corrected: a profile point with its radius in [minRadius, maxRadius]
\* is returned unchanged; a point outside the band, above it or below it,
\* has its radius made smaller by exactly the offset, and keeps its polar
\* angle when its radius was larger than the offset (a point nearer to the
\* origin than the offset is carried through the origin to the other side).
C13_ClipInward ==
    (HypoDone /\ fp.teeth_number > 0) =>
        \A j \in Profile :
            /\ InBand(j) => ClippedPolar(j) = RawPolar(j)
            /\ (~InBand(j) /\ RawPolar(j).r > PressureAngleOffset) =>
                  ClippedPolar(j) = [r |-> RawPolar(j).r - PressureAngleOffset,
                                     a |-> RawPolar(j).a]
            /\ (~InBand(j) /\ RawPolar(j).r < PressureAngleOffset) =>
                  /\ ClippedPolar(j).r = PressureAngleOffset - RawPolar(j).r
                  /\ ClippedPolar(j).a # RawPolar(j).a

\* a finished profile with a point inside the band, one above it and one
\* below it
C13_Witness ==
    /\ HypoDone
    /\ fp.teeth_number > 0
    /\ loc.minRadius < loc.maxRadius
    /\ \E j \in Profile : InBand(j)
    /\ \E j \in Profile : RawPolar(j).r > loc.maxRadius
    /\ \E j \in Profile :
          RawPolar(j).r < loc.minRadius /\ RawPolar(j).r > PressureAngleOffset

\* the sum of the rotations about z put into a matrix
RECURSIVE Rotation(_)
Rotation(mat) ==
    IF mat = <<>> THEN 0
    ELSE (IF mat[1].op = "rotateZ" THEN mat[1].by ELSE 0) + Rotation(Tail(mat))

\* the face of a disk of the compound: the disk itself, or what was extruded
DiskFace(part) == IF part.kind = "extrusion" THEN part.face ELSE part

\* the secondary disk among the parts of the compound
SecondDisk == DiskFace(shape.parts[IF fp.show_disk0 THEN 2 ELSE 1])

SecondDiskCase == HypoDone /\ fp.teeth_number > 0 /\ fp.show_disk1

\* C14: the secondary cam disk is the primary disk turned by half a turn,
\* and by a further pi / teeth_number exactly when teeth_number is even.
C14_SecondDisk ==
    SecondDiskCase =>
        /\ SecondDisk.kind = "transformed"
        /\ fp.show_disk0 => SecondDisk.of = DiskFace(shape.parts[1])
        /\ SecondDisk.of.kind = "cut"
        /\ SecondDisk.of.of.wires[1].of.curves = pts
        /\ Rotation(SecondDisk.mat) =
              IF fp.teeth_number % 2 = 0
              THEN CamPi + CamPi \div fp.teeth_number
              ELSE CamPi

\* both disks of a cam with an even number of teeth
C14_Witness ==
    /\ SecondDiskCase
    /\ fp.show_disk0
    /\ fp.teeth_number % 2 = 0
    /\ Rotation(SecondDisk.mat) > CamPi

\* C17 as stated: a finished generation call has returned a shape or has
\* raised; it has never returned without a shape, whatever show_disk0,
\* show_disk1 and show_pins are.
C17_ShapeOrError ==
    pc = "done" => shape # None /\ shape # NoShape

\* the scan has found no angle for minAngle or for maxAngle
NoCrossing ==
    \/ Crossings(fp.pressure_angle_lim, ScanEnd) = {}
    \/ Crossings(-fp.pressure_angle_lim, ScanEnd) = {}

\* C18 as stated: when the scan finds no crossing for minAngle or for
\* maxAngle, the generation call fails with RootNotFound (InvalidParameter
\* for the gear), and no minRadius or maxRadius has been computed.
C18_RootNotFound ==
    (HypoDone /\ fp.teeth_number > 0 /\ NoCrossing) =>
        /\ shape \in {Raised("RootNotFound"), Raised("InvalidParameter")}
        /\ loc = NoLocals

\* ------------------------------------------- the tooth object across calls
\* The involute gear, the rack and the cycloid gear keep one tooth object
\* (fp.gear, fp.rack) for all their generation calls. A feature restored from an old document
\* lacks the properties added to the class after it was saved.
OptionalInvolute == {"properties_from_tool", "da"}
OptionalCycloid == {"head"}
OptionalRack ==
    {"clearance", "properties_from_tool", "add_endings", "simplified",
     "transverse_pitch"}

\* a property the feature does not have
Absent == [absent |-> TRUE]
\* a field of the tooth object that no generation call has written
Constructed == [constructed |-> TRUE]
\* a computed property that no generation call has written
NotComputed == [computed |-> FALSE]
\* a value of a property or of a field
Val(x) == [val |-> x]
Vals(S) == {Val(x) : x \in S}

\* clearance, in 1/100 of the module
ClearanceValues == {25, 30}

\* head, in 1/100 of the module
HeadValues == {0, 50}

\* the values of one property of a feature with the properties pl
Opt(pl, name, values) == IF name \in pl THEN values ELSE {Absent}

\* InvoluteGear.__init__ and InvoluteGearRack.__init__, and the features of
\* these classes restored from older documents
LegacyFeatures ==
    UNION {
        [family : {"InvoluteGear"},
         PropertiesList : {pl},
         teeth : TeethValues,
         module : {1},
         clearance : Vals(ClearanceValues),
         head : {Val(0)},
         properties_from_tool : Opt(pl, "properties_from_tool", Vals(BOOLEAN)),
         add_endings : {Absent},
         simplified : {Absent},
         dw : {NotComputed},
         transverse_pitch : {NotComputed},
         da : Opt(pl, "da", {NotComputed}),
         df : Opt(pl, "da", {NotComputed})] : pl \in SUBSET OptionalInvolute }
    \cup
    UNION {
        [family : {"InvoluteGearRack"},
         PropertiesList : {pl},
         teeth : TeethValues,
         module : {1},
         clearance : Opt(pl, "clearance", Vals(ClearanceValues)),
         head : {Val(0)},
         properties_from_tool : Opt(pl, "properties_from_tool", Vals(BOOLEAN)),
         add_endings : Opt(pl, "add_endings", Vals(BOOLEAN)),
         simplified : Opt(pl, "simplified", Vals(BOOLEAN)),
         dw : {Absent},
         transverse_pitch : Opt(pl, "transverse_pitch", {NotComputed}),
         da : {Absent},
         df : {Absent}] : pl \in SUBSET OptionalRack }
    \cup
    UNION {
        [family : {"CycloidGear"},
         PropertiesList : {pl},
         teeth : TeethValues,
         module : {1},
         clearance : Vals(ClearanceValues),
         head : Opt(pl, "head", Vals(HeadValues)),
         properties_from_tool : {Absent},
         add_endings : {Absent},
         simplified : {Absent},
         dw : {Absent},
         transverse_pitch : {Absent},
         da : {Absent},
         df : {Absent}] : pl \in SUBSET OptionalCycloid }

\* InvoluteTooth() / InvoluteRack() / CycloidTooth(): the tooth object as
\* constructed
NewTooth ==
    [z |-> Constructed, m |-> Constructed, clearance |-> Constructed,
     head |-> Constructed,
     properties_from_tool |-> Constructed, add_endings |-> Constructed,
     simplified |-> Constructed, dw |-> Constructed, pitch |-> Constructed,
     da |-> Constructed, df |-> Constructed]

\* pygears _update() and compute_properties(): the dimensions of the tooth
\* object, each a function of the fields it is computed from
tooth_update(g) ==
    [g EXCEPT
        !.dw = Val(PitchDiameter(g.m.val, g.z.val)),
        !.pitch = [pitch_of |-> <<g.m, g.properties_from_tool>>],
        !.da = [da_of |-> <<g.m, g.z, g.head, g.properties_from_tool>>],
        !.df = [df_of |-> <<g.m, g.z, g.clearance, g.properties_from_tool>>]]

\* a slip: the tooth object is filled in only by the first call
involute_tooth_cached(f, g) ==
    IF g.z # Constructed THEN g
    ELSE [g EXCEPT
            !.m = Val(f.module),
            !.z = Val(f.teeth),
            !.clearance = f.clearance,
            !.head = f.head,
            !.properties_from_tool =
                IF "properties_from_tool" \in f.PropertiesList
                THEN f.properties_from_tool ELSE @]

\* InvoluteGear.generate_gear_shape: the fields written into fp.gear
involute_tooth(f, g) ==
    [g EXCEPT
        !.m = Val(f.module),
        !.z = Val(f.teeth),
        !.clearance = f.clearance,
        !.head = f.head,
        !.properties_from_tool =
            IF "properties_from_tool" \in f.PropertiesList
            THEN f.properties_from_tool ELSE @]

\* InvoluteGearRack.generate_gear_shape: the fields written into fp.rack
rack_tooth(f, g) ==
    [g EXCEPT
        !.m = Val(f.module),
        !.z = Val(f.teeth),
        !.head = f.head,
        !.clearance =
            IF "clearance" \in f.PropertiesList THEN f.clearance ELSE @,
        !.properties_from_tool =
            IF "properties_from_tool" \in f.PropertiesList
            THEN f.properties_from_tool ELSE @,
        !.add_endings =
            IF "add_endings" \in f.PropertiesList THEN f.add_endings ELSE @,
        !.simplified =
            IF "simplified" \in f.PropertiesList THEN f.simplified ELSE @]

\* CycloidGear._add_head_property when the feature has no head: the
\* property is added and set to 0.0
add_head_property(f) ==
    IF "head" \in f.PropertiesList THEN f
    ELSE [f EXCEPT !.PropertiesList = @ \cup {"head"}, !.head = Val(0)]

\* CycloidGear.generate_gear_shape: the fields written into fp.gear
cycloid_tooth(f, g) ==
    [g EXCEPT
        !.m = Val(f.module),
        !.z = Val(f.teeth),
        !.clearance = f.clearance,
        !.head = add_head_property(f).head]

\* the outline fp.gear.points() / fp.rack.points() of a tooth object, and
\* the solid made of it
OutlineOf(g) == [kind |-> "outline", tooth |-> g]

LegacyInit ==
    /\ fp \in LegacyFeatures
    /\ gear = NewTooth
    /\ pc = "idle"
    /\ pts = <<>>
    /\ rotated_pts = <<>>
    /\ rot = 0
    /\ i = 0
    /\ calls = <<>>
    /\ shape = NoShape
    /\ loc = NoLocals

\* The user sets one property the feature has.
LegacyEdit ==
    /\ pc \in {"idle", "done"}
    /\ \/ \E v \in TeethValues \ {fp.teeth} : fp' = [fp EXCEPT !.teeth = v]
       \/ /\ fp.clearance # Absent
          /\ \E v \in ClearanceValues \ {fp.clearance.val} :
                fp' = [fp EXCEPT !.clearance = Val(v)]
       \/ /\ fp.head # Absent
          /\ fp.family = "CycloidGear"
          /\ \E v \in HeadValues \ {fp.head.val} : fp' = [fp EXCEPT !.head = Val(v)]
       \/ /\ fp.properties_from_tool # Absent
          /\ fp' = [fp EXCEPT !.properties_from_tool = Val(~fp.properties_from_tool.val)]
       \/ /\ fp.add_endings # Absent
          /\ fp' = [fp EXCEPT !.add_endings = Val(~fp.add_endings.val)]
       \/ /\ fp.simplified # Absent
          /\ fp' = [fp EXCEPT !.simplified = Val(~fp.simplified.val)]
    /\ pc' = "idle"
    /\ NoCall
    /\ UNCHANGED gear

\* InvoluteGear.generate_gear_shape: the tooth object, the computed
\* properties and the shape made of the tooth object
InvoluteGenerate ==
    /\ pc \in {"idle", "done"}
    /\ fp.family = "InvoluteGear"
    /\ gear' = tooth_update(involute_tooth(fp, gear))
    /\ fp' = [fp EXCEPT
                !.dw = gear'.dw,
                !.transverse_pitch = gear'.pitch,
                !.PropertiesList = @ \cup {"da"},
                !.da = gear'.da,
                !.df = gear'.df]
    /\ shape' = OutlineOf(gear')
    /\ loc' = [z |-> gear.z]
    /\ pc' = "done"
    /\ UNCHANGED <<pts, rotated_pts, rot, i, calls>>

\* InvoluteGearRack.generate_gear_shape
RackToothGenerate ==
    /\ pc \in {"idle", "done"}
    /\ fp.family = "InvoluteGearRack"
    /\ gear' = tooth_update(rack_tooth(fp, gear))
    /\ fp' = [fp EXCEPT
                !.transverse_pitch =
                    IF "transverse_pitch" \in fp.PropertiesList
                    THEN gear'.pitch ELSE @]
    /\ shape' = OutlineOf(gear')
    /\ loc' = [z |-> gear.z]
    /\ pc' = "done"
    /\ UNCHANGED <<pts, rotated_pts, rot, i, calls>>

\* CycloidGear.generate_gear_shape
CycloidToothGenerate ==
    /\ pc \in {"idle", "done"}
    /\ fp.family = "CycloidGear"
    /\ gear' = tooth_update(cycloid_tooth(fp, gear))
    /\ fp' = add_head_property(fp)
    /\ shape' = OutlineOf(gear')
    /\ loc' = [z |-> gear.z]
    /\ pc' = "done"
    /\ UNCHANGED <<pts, rotated_pts, rot, i, calls>>

LegacyNext ==
    \/ LegacyEdit
    \/ InvoluteGenerate
    \/ RackToothGenerate
    \/ CycloidToothGenerate

LegacySpec == LegacyInit /\ [][LegacyNext]_vars

\* the value a field of the tooth object has to have: the feature's, or
\* the constructor's when the feature lacks the property
Current(name) ==
    IF fp[name] = Absent THEN Constructed ELSE fp[name]

\* the tooth object that belongs to the feature's current parameters
CurrentTooth ==
    tooth_update([NewTooth EXCEPT
        !.m = Val(fp.module),
        !.z = Val(fp.teeth),
        !.clearance = Current("clearance"),
        !.head = Current("head"),
        !.properties_from_tool = Current("properties_from_tool"),
        !.add_endings = Current("add_endings"),
        !.simplified = Current("simplified")])

\* C15: after a generation call of an InvoluteGear or an InvoluteGearRack,
\* whatever edits and calls came before and whichever of the later-added
\* properties the feature lacks, the tooth object the outline was made of
\* holds the feature's current parameters (the constructor's value where the
\* feature has no such property), and dw, transverse_pitch, da and df on the
\* feature are the dimensions of these current parameters.
C15_NoStaleTooth ==
    (pc = "done" /\ fp.family \in {"InvoluteGear", "InvoluteGearRack"}) =>
        /\ gear = CurrentTooth
        /\ shape = OutlineOf(CurrentTooth)
        /\ fp.family = "InvoluteGear" =>
              /\ fp.dw = Val(PitchDiameter(fp.module, fp.teeth))
              /\ fp.transverse_pitch = CurrentTooth.pitch
              /\ fp.da = CurrentTooth.da
              /\ fp.df = CurrentTooth.df
        /\ (fp.family = "InvoluteGearRack" /\ fp.transverse_pitch # Absent) =>
              fp.transverse_pitch = CurrentTooth.pitch

\* a call on a legacy rack whose tooth object held another tooth count,
\* written by an earlier call
C15_Witness ==
    /\ pc = "done"
    /\ fp.family = "InvoluteGearRack"
    /\ fp.PropertiesList = {}
    /\ loc.z \notin {Constructed, Val(fp.teeth)}
    /\ gear.z = Val(fp.teeth)

\* the properties of the feature that are not read-only, besides teeth and
\* module
InputProperties ==
    {"clearance", "head", "properties_from_tool", "add_endings", "simplified"}

\* the input parameters a feature has, with their values
Inputs(f) ==
    [teeth |-> f.teeth,
     module |-> f.module,
     others |-> [name \in {n \in InputProperties : f[n] # Absent} |-> f[name]]]

\* C20 as stated: a generation call changes no input parameter of the
\* feature: the input parameters it has after the call are those it had
\* before, with the same values; only computed properties are written.
C20_InputsUnchanged ==
    [][pc' = "done" => Inputs(fp') = Inputs(fp)]_vars

\* ------------------------------------------------- the timing belt pulley
\* the belt types of ProfileTimingGear.data
TimingTypes ==
    {"MXL", "40 D.P.", "XL", "H", "T2.5", "T5", "T10", "AT5", "HTD3M", "HTD5M", "HTD8M", "GT2 2MM", "GT2 3MM", "GT2 5MM"}

\* ProfileTimingGear.data without the polygons; lengths in 1/1000 mm. A type
\* with the curve-fit coefficients b, c, d has no pitch and no offset.
TimingData(tp) ==
    CASE tp = "MXL" -> [has_pitch |-> TRUE, pitch |-> 2032, offset |-> 254, teeth_depth |-> 508, teeth_width |-> 1321]
    [] tp = "40 D.P." -> [has_pitch |-> TRUE, pitch |-> 2073, offset |-> 178, teeth_depth |-> 457, teeth_width |-> 1226]
    [] tp = "XL" -> [has_pitch |-> TRUE, pitch |-> 5080, offset |-> 254, teeth_depth |-> 1270, teeth_width |-> 3051]
    [] tp = "H" -> [has_pitch |-> TRUE, pitch |-> 9525, offset |-> 381, teeth_depth |-> 1905, teeth_width |-> 5359]
    [] tp = "T2.5" -> [has_pitch |-> FALSE, pitch |-> 0, offset |-> 0, teeth_depth |-> 700, teeth_width |-> 1678]
    [] tp = "T5" -> [has_pitch |-> FALSE, pitch |-> 0, offset |-> 0, teeth_depth |-> 1190, teeth_width |-> 3264]
    [] tp = "T10" -> [has_pitch |-> TRUE, pitch |-> 10000, offset |-> 930, teeth_depth |-> 2500, teeth_width |-> 6130]
    [] tp = "AT5" -> [has_pitch |-> FALSE, pitch |-> 0, offset |-> 0, teeth_depth |-> 1190, teeth_width |-> 4268]
    [] tp = "HTD3M" -> [has_pitch |-> TRUE, pitch |-> 3000, offset |-> 381, teeth_depth |-> 1289, teeth_width |-> 2270]
    [] tp = "HTD5M" -> [has_pitch |-> TRUE, pitch |-> 5000, offset |-> 572, teeth_depth |-> 2199, teeth_width |-> 3781]
    [] tp = "HTD8M" -> [has_pitch |-> TRUE, pitch |-> 8000, offset |-> 686, teeth_depth |-> 3607, teeth_width |-> 6603]
    [] tp = "GT2 2MM" -> [has_pitch |-> TRUE, pitch |-> 2000, offset |-> 254, teeth_depth |-> 764, teeth_width |-> 1494]
    [] tp = "GT2 3MM" -> [has_pitch |-> TRUE, pitch |-> 3000, offset |-> 381, teeth_depth |-> 1169, teeth_width |-> 2310]
    [] tp = "GT2 5MM" -> [has_pitch |-> TRUE, pitch |-> 5000, offset |-> 571, teeth_depth |-> 1969, teeth_width |-> 3952]

\* the tooth counts of the model: one too small for its pulley, the
\* constructor's 24, and one more
TimingTeeth == {1, 24, 25}

\* od of a type and a tooth count, in 1/1000 mm: 2 * (teeth * pitch / (2 pi)
\* - offset) of a type with a pitch, the curve fit c * teeth^d / (b +
\* teeth^d) * teeth of the others; rounded to an even number
OdTable ==
    [tp \in TimingTypes |->
        CASE tp = "MXL" -> [t \in TimingTeeth |-> CASE t = 1 -> 138 [] t = 24 -> 15016 [] t = 25 -> 15662]
          [] tp = "40 D.P." -> [t \in TimingTeeth |-> CASE t = 1 -> 304 [] t = 24 -> 15478 [] t = 25 -> 16138]
          [] tp = "XL" -> [t \in TimingTeeth |-> CASE t = 1 -> 1110 [] t = 24 -> 38300 [] t = 25 -> 39918]
          [] tp = "H" -> [t \in TimingTeeth |-> CASE t = 1 -> 2270 [] t = 24 -> 72004 [] t = 25 -> 75036]
          [] tp = "T2.5" -> [t \in TimingTeeth |-> CASE t = 1 -> 456 [] t = 24 -> 18572 [] t = 25 -> 19368]
          [] tp = "T5" -> [t \in TimingTeeth |-> CASE t = 1 -> 962 [] t = 24 -> 37356 [] t = 25 -> 38948]
          [] tp = "T10" -> [t \in TimingTeeth |-> CASE t = 1 -> 1324 [] t = 24 -> 74534 [] t = 25 -> 77718]
          [] tp = "AT5" -> [t \in TimingTeeth |-> CASE t = 1 -> 962 [] t = 24 -> 37356 [] t = 25 -> 38948]
          [] tp = "HTD3M" -> [t \in TimingTeeth |-> CASE t = 1 -> 192 [] t = 24 -> 22156 [] t = 25 -> 23112]
          [] tp = "HTD5M" -> [t \in TimingTeeth |-> CASE t = 1 -> 448 [] t = 24 -> 37054 [] t = 25 -> 38646]
          [] tp = "HTD8M" -> [t \in TimingTeeth |-> CASE t = 1 -> 1174 [] t = 24 -> 59744 [] t = 25 -> 62290]
          [] tp = "GT2 2MM" -> [t \in TimingTeeth |-> CASE t = 1 -> 128 [] t = 24 -> 14770 [] t = 25 -> 15408]
          [] tp = "GT2 3MM" -> [t \in TimingTeeth |-> CASE t = 1 -> 192 [] t = 24 -> 22156 [] t = 25 -> 23112]
          [] tp = "GT2 5MM" -> [t \in TimingTeeth |-> CASE t = 1 -> 450 [] t = 24 -> 37056 [] t = 25 -> 38646]]

\* obj.additional_teeth_width = 0.2 and obj.height = '9.3 mm', in 1/1000 mm
AdditionalTeethWidth == 200
TimingHeight == 9300

\* ProfileTimingGear.__init__: the properties of a new feature; the computed
\* properties are lengths and start at 0
TimingFeatures ==
    [family : {"ProfileTimingGear"},
     type : TimingTypes,
     teeth : TimingTeeth,
     height : {0, TimingHeight},
     additional_teeth_width : {AdditionalTeethWidth},
     pitch : {0}, offset : {0}, od : {0}, radius : {0},
     teeth_width : {0}, teeth_depth : {0}, teeth_radius : {RInt(0)}]

\* ProfileTimingGear.generate_gear_shape: the computed properties it writes
timing_properties(f) ==
    LET gt_data == TimingData(f.type)
        od == OdTable[f.type][f.teeth]
    IN  [f EXCEPT
            !.pitch = IF gt_data.has_pitch THEN gt_data.pitch ELSE @,
            !.offset = IF gt_data.has_pitch THEN gt_data.offset ELSE @,
            !.od = od,
            !.radius = od \div 2,
            !.teeth_width = gt_data.teeth_width,
            !.teeth_depth = gt_data.teeth_depth,
            !.teeth_radius =
                R(gt_data.teeth_width + f.additional_teeth_width, 2)]

\* ProfileTimingGear.generate_gear_shape: what it returns. math.sqrt fails
\* when teeth_radius is larger than radius; otherwise the disk of the
\* radius is cut by one tooth polygon for each tooth and extruded.
timing_shape(f) ==
    LET w == timing_properties(f)
        pulley == [kind |-> "cut",
                 of |-> [kind |-> "face", radius |-> w.radius],
                 polygon |-> f.type,
                 teeth_width |-> w.teeth_width,
                 teeth_radius |-> w.teeth_radius,
                 count |-> f.teeth]
    IN  IF RLt(RInt(w.radius), w.teeth_radius) THEN Raised("ValueError")
        ELSE IF f.height = 0 THEN pulley
        ELSE [kind |-> "extrusion", face |-> pulley, dz |-> f.height]

TimingInit ==
    /\ fp \in TimingFeatures
    /\ gear = NoGear
    /\ pc = "idle"
    /\ pts = <<>>
    /\ rotated_pts = <<>>
    /\ rot = 0
    /\ i = 0
    /\ calls = <<>>
    /\ shape = NoShape
    /\ loc = NoLocals

\* The user sets one property; the computed properties keep their values.
TimingEdit ==
    /\ pc \in {"idle", "done"}
    /\ \/ \E v \in TimingTypes \ {fp.type} : fp' = [fp EXCEPT !.type = v]
       \/ \E v \in TimingTeeth \ {fp.teeth} : fp' = [fp EXCEPT !.teeth = v]
       \/ fp' = [fp EXCEPT !.height = TimingHeight - @]
    /\ pc' = "idle"
    /\ NoCall
    /\ UNCHANGED gear

\* ProfileTimingGear.generate_gear_shape
TimingGenerate ==
    /\ pc \in {"idle", "done"}
    /\ fp' = timing_properties(fp)
    /\ shape' = timing_shape(fp)
    /\ pc' = "done"
    /\ UNCHANGED <<gear, pts, rotated_pts, rot, i, calls, loc>>

TimingNext == TimingEdit \/ TimingGenerate

TimingSpec == TimingInit /\ [][TimingNext]_vars

\* C16 as stated: after a generation call of ProfileTimingGear, whatever
\* types were selected before, od, radius, teeth_width, teeth_depth and
\* teeth_radius are those of the selected type and tooth count, pitch and
\* offset are those of the selected type, and no property holds a value
\* written for a type selected before (a type without a pitch shows none).
C16_CurrentType ==
    pc = "done" =>
        LET gt_data == TimingData(fp.type)
        IN  /\ fp.od = OdTable[fp.type][fp.teeth]
            /\ fp.radius = fp.od \div 2
            /\ fp.teeth_width = gt_data.teeth_width
            /\ fp.teeth_depth = gt_data.teeth_depth
            /\ fp.teeth_radius =
                  R(gt_data.teeth_width + fp.additional_teeth_width, 2)
            /\ fp.pitch = gt_data.pitch
            /\ fp.offset = gt_data.offset

\* --------------------------------------------------------- the lantern gear
\* bolt radii, in mm
BoltRadiusValues == {1, 2}

\* LanternGear.__init__
LanternFeatures ==
    [family : {"LanternGear"},
     teeth : TeethValues,
     module : ModuleValues,
     bolt_radius : BoltRadiusValues,
     height : HeightValues]

\* what "import scipy.optimize; scipy.optimize.root(...).x[0]" can do: the
\* import fails, or root returns a result whose x is a root of find_phi_min
\* (success) or the last iterate of a search that did not converge
SolverOutcomes == {"converged", "not converged", "ImportError"}

\* phi_min after the try statement
lantern_phi_min(f, outcome) ==
    CASE outcome = "converged" ->
            [root_of |-> "find_phi_min", r_r |-> f.bolt_radius,
             r_0 |-> R(f.module * f.teeth, 2)]
      [] outcome = "not converged" ->
            [last_iterate_of |-> "find_phi_min", r_r |-> f.bolt_radius,
             r_0 |-> R(f.module * f.teeth, 2)]
      [] outcome = "ImportError" ->
            [quotient |-> RDiv(RInt(f.bolt_radius), R(f.module * f.teeth, 2))]

\* the wire w of one tooth: the two flanks from phi_min to phi_max, the arc
\* between them and the arc to the next tooth
lantern_tooth(f, phi_min) ==
    [kind |-> "tooth", phi_min |-> phi_min,
     r_0 |-> R(f.module * f.teeth, 2), r_r |-> f.bolt_radius, turned |-> 0]

\* wires: w and its teeth - 1 copies, each turned one pitch further
lantern_wires(f, phi_min) ==
    [k \in 1..f.teeth |->
        [lantern_tooth(f, phi_min) EXCEPT
            !.turned = ((k - 1) * (Turn \div f.teeth)) % Turn]]

\* LanternGear.generate_gear_shape from "wi = Part.Wire(wires)" on
lantern_shape(f, phi_min) ==
    LET wi == Wire(lantern_wires(f, phi_min))
    IN  IF f.height = 0 THEN wi ELSE extrude(wi, RInt(f.height))

LanternInit ==
    /\ fp \in LanternFeatures
    /\ gear = NoGear
    /\ pc = "idle"
    /\ pts = <<>>
    /\ rotated_pts = <<>>
    /\ rot = 0
    /\ i = 0
    /\ calls = <<>>
    /\ shape = NoShape
    /\ loc = NoLocals

\* The user sets one property of the lantern gear.
LanternEdit ==
    /\ pc \in {"idle", "done"}
    /\ \/ \E v \in TeethValues \ {fp.teeth} : fp' = [fp EXCEPT !.teeth = v]
       \/ \E v \in ModuleValues \ {fp.module} : fp' = [fp EXCEPT !.module = v]
       \/ \E v \in BoltRadiusValues \ {fp.bolt_radius} :
             fp' = [fp EXCEPT !.bolt_radius = v]
       \/ \E v \in HeightValues \ {fp.height} : fp' = [fp EXCEPT !.height = v]
    /\ pc' = "idle"
    /\ NoCall
    /\ UNCHANGED gear

\* LanternGear.generate_gear_shape
LanternGenerate ==
    /\ pc \in {"idle", "done"}
    /\ \E outcome \in SolverOutcomes :
          /\ loc' = [solver |-> outcome, phi_min |-> lantern_phi_min(fp, outcome)]
          /\ shape' = lantern_shape(fp, loc'.phi_min)
    /\ pc' = "done"
    /\ UNCHANGED <<fp, gear, pts, rotated_pts, rot, i, calls>>

LanternNext == LanternEdit \/ LanternGenerate

LanternSpec == LanternInit /\ [][LanternNext]_vars

\* C19 as stated: when the root search for phi_min delivers no converged
\* root (it did not converge, or the solver is not available), the
\* generation call of LanternGear fails with RootNotFound / InvalidParameter
\* and no flank is built from the value.
C19_RootNotFound ==
    (pc = "done" /\ loc.solver # "converged") =>
        shape \in {Raised("RootNotFound"), Raised("InvalidParameter")}

\* ---------------------------------------------------------------- the pins
PinsCase == HypoDone /\ fp.teeth_number > 0 /\ fp.show_pins

\* the face of the pins among the parts of the compound: the last part, or
\* what was extruded to make it
PinsFace == DiskFace(shape.parts[Len(shape.parts)])

\* the shift of the pins along z that belongs to the shown disks
PinsShift ==
    IF fp.center_pins /\ fp.show_disk0 /\ ~fp.show_disk1 THEN fp.disk_height \div 2
    ELSE IF fp.center_pins /\ ~fp.show_disk0 /\ fp.show_disk1
    THEN -(fp.disk_height \div 2)
    ELSE 0

\* C29: with show_pins set there are exactly teeth_number + 1 pins, pin i at
\* the angle i * 2 pi / (teeth_number + 1) on the circle of the radius
\* pin_circle_radius; they start at z = -pin_height / 2, shifted by
\* +disk_height / 2 when center_pins is set and only disk0 is shown, by
\* -disk_height / 2 when center_pins is set and only disk1 is shown, and not
\* shifted otherwise.
C29_Pins ==
    PinsCase =>
        /\ Len(PinsFace.circles) = fp.teeth_number + 1
        /\ \A k \in 1..(fp.teeth_number + 1) :
              /\ PinsFace.circles[k].on = PinCircleRadius
              /\ PinsFace.circles[k].of = fp.teeth_number + 1
              /\ PinsFace.circles[k].step = k - 1
        /\ PinsFace.dz = -(fp.pin_height \div 2) + PinsShift

\* centred pins next to the primary disk alone
C29_Witness ==
    /\ PinsCase
    /\ fp.center_pins /\ fp.show_disk0 /\ ~fp.show_disk1
    /\ fp.pin_height = PinHeight /\ fp.disk_height = DiskHeight
    /\ PinsFace.dz = DiskHeight \div 2 - PinHeight \div 2
    /\ Len(PinsFace.circles) = MaxTeeth + 1

\* ---------------------------------------------------------------------------
\* BaseGear.execute, statement by statement (ExecSpec).  The feature carries
\* its Shape, its Placement, the support it is attached to and, unless it
\* comes from a document written before the property existed, its
\* BaseFeature.  Placements are turns about one axis by steps of
\* 1 / (MaxPlacement + 1) of a full turn; shapes are terms over the
\* operations of the kernel.
\* ---------------------------------------------------------------------------
MaxPlacement == 2

MaxBodies == 2

Placements == 0..MaxPlacement

\* Placement.inverse()
inverse(p) == (MaxPlacement + 1 - p) % (MaxPlacement + 1)

NullShape == [kind |-> "null"]

Bodies == {[Shape |-> [kind |-> "body", id |-> k]] : k \in 1..MaxBodies}

ExecClasses == {"BaseGear", "InvoluteGear"}

ExecFeatures ==
    [klass : ExecClasses,
     teeth : TeethValues,
     attachable : BOOLEAN,
     Support : {None} \cup {[Placement |-> p] : p \in Placements},
     Placement : Placements,
     BaseFeature : {Absent, None} \cup Bodies,
     Shape : {NullShape}]

\* fp.positionBySupport(): the placement follows the support, if there is one
positionBySupport(f) ==
    IF f.Support = None THEN f ELSE [f EXCEPT !.Placement = f.Support.Placement]

\* self.generate_gear_shape(fp): the base class raises; a gear class returns
\* the shape of its parameters or raises
generate_gear_shape(f) ==
    IF f.klass = "BaseGear" THEN {Raised("NotImplementedError")}
    ELSE {[kind |-> "gear", teeth |-> f.teeth], Raised("ValueError")}

\* a slip of the fusion: the gear shape is fused where it was generated
result_shape_unplaced(f, gear_shape) ==
    IF f.BaseFeature # Absent /\ f.BaseFeature # None
    THEN [kind |-> "transformed",
          of |-> [kind |-> "fuse", a |-> f.BaseFeature.Shape, b |-> gear_shape],
          by |-> inverse(f.Placement)]
    ELSE gear_shape

\* the value execute assigns to fp.Shape
result_shape(f, gear_shape) ==
    IF f.BaseFeature # Absent /\ f.BaseFeature # None
    THEN [kind |-> "transformed",
          of |-> [kind |-> "fuse",
                  a |-> f.BaseFeature.Shape,
                  b |-> [kind |-> "placed", of |-> gear_shape,
                         Placement |-> f.Placement]],
          by |-> inverse(f.Placement)]
    ELSE gear_shape

ExecInit ==
    /\ fp \in ExecFeatures
    /\ gear = NoGear
    /\ pc = "idle"
    /\ pts = <<>>
    /\ rotated_pts = <<>>
    /\ rot = 0
    /\ i = 0
    /\ calls = <<>>
    /\ shape = NoShape
    /\ loc = NoLocals

ExecRest == pc \in {"idle", "done", "raised"}

\* The user sets one property between two recomputes.
ExecEdit ==
    /\ ExecRest
    /\ \/ \E v \in TeethValues \ {fp.teeth} : fp' = [fp EXCEPT !.teeth = v]
       \/ \E v \in Placements \ {fp.Placement} : fp' = [fp EXCEPT !.Placement = v]
       \/ /\ fp.BaseFeature # Absent
          /\ \E v \in ({None} \cup Bodies) \ {fp.BaseFeature} :
                fp' = [fp EXCEPT !.BaseFeature = v]
    /\ pc' = "idle"
    /\ UNCHANGED <<gear, pts, rotated_pts, rot, i, calls, shape, loc>>

\* execute up to the call of generate_gear_shape
ExecBegin ==
    /\ ExecRest
    /\ fp' = positionBySupport([fp EXCEPT !.attachable = TRUE])
    /\ shape' = NoShape
    /\ pc' = "generate"
    /\ UNCHANGED <<gear, pts, rotated_pts, rot, i, calls, loc>>

\* gear_shape = self.generate_gear_shape(fp)
ExecGenerate ==
    /\ pc = "generate"
    /\ \E g \in generate_gear_shape(fp) :
          /\ shape' = g
          /\ pc' = IF g.kind = "error" THEN "raised" ELSE "assign"
    /\ UNCHANGED <<fp, gear, pts, rotated_pts, rot, i, calls, loc>>

\* the assignment to fp.Shape
ExecAssign ==
    /\ pc = "assign"
    /\ fp' = [fp EXCEPT !.Shape = result_shape(fp, shape)]
    /\ pc' = "done"
    /\ UNCHANGED <<gear, pts, rotated_pts, rot, i, calls, shape, loc>>

ExecNext == ExecEdit \/ ExecBegin \/ ExecGenerate \/ ExecAssign

ExecSpec == ExecInit /\ [][ExecNext]_vars

\* the shape the claim asks for after a call that returned gear_shape
ExpectedShape(f, gear_shape) ==
    IF f.BaseFeature \in Bodies
    THEN [kind |-> "transformed",
          of |-> [kind |-> "fuse",
                  a |-> f.BaseFeature.Shape,
                  b |-> [kind |-> "placed", of |-> gear_shape,
                         Placement |-> f.Placement]],
          by |-> inverse(f.Placement)]
    ELSE gear_shape

\* C30: execute assigns fp.Shape only after generate_gear_shape has
\* returned a shape; a call in which it raises (NotImplementedError
\* included) leaves fp.Shape as it was; a call that succeeds sets fp.Shape
\* to the generated shape when there is no BaseFeature, and otherwise to the
\* fusion of the shape of the BaseFeature with the generated shape placed at
\* fp.Placement, transformed by the inverse of fp.Placement.
C30_ShapeAfterGenerate ==
    [][/\ fp'.Shape # fp.Shape =>
             pc = "assign" /\ pc' = "done" /\ shape.kind = "gear"
       /\ pc' = "raised" => fp'.Shape = fp.Shape
       /\ pc' = "done" => fp'.Shape = ExpectedShape(fp, shape)]_vars

\* a recompute with a BaseFeature and a placement that is not the identity
\* has set the Shape
C30_Witness ==
    /\ pc = "done"
    /\ fp.BaseFeature \in Bodies
    /\ fp.Placement # 0
    /\ fp.Shape = ExpectedShape(fp, shape)
    /\ fp.Shape.of.b.Placement = fp.Placement

\* ---------------------------------------------------------------------------
\* The replication loops of TimingGear, WormGear, CrownGear,
\* ProfileTimingGear, LanternGear and HypoCycloidGear, pass by pass
\* (ReplicaSpec).  Angles are counted in steps of 1 / Full of a full turn,
\* so that pi / teeth is a whole number of steps for every number of teeth
\* up to MaxTeeth.  A shape of the kernel that is turned about the z axis is
\* kept as its geometry where it was built together with the angle it was
\* turned by since.
\* ---------------------------------------------------------------------------
Full == 4 * Turn

\* np.pi
HalfTurn == Full \div 2

\* np.pi / 2
QuarterTurn == Full \div 4

\* a shape of the kernel where it was built
Built(geometry) == [geometry |-> geometry, rot |-> 0]

\* shape.transformGeometry(matrix), matrix a turn about z by a
turn_shape(s, a) == [s EXCEPT !.rot = (@ + a) % Full]

\* a slip of rotateZ: the turn replaces what the matrix holds
turn_matrix_reset(matrix, a) == a % Full

\* matrix.rotateZ(a): the turn is added to what the matrix holds
turn_matrix(matrix, a) == (matrix + a) % Full

\* a slip of the step: np.pi / teeth
replica_step_half(teeth) == HalfTurn \div teeth

\* np.pi * 2 / teeth
replica_step(teeth) == Full \div teeth

ReplicaFamilies ==
    {"TimingGear", "WormGear", "CrownGear", "ProfileTimingGear",
     "LanternGear", "HypoCycloidGear"}

\* head and clearance of a worm, in 1 / 100
WormHeadValues == {-150, 0, 50}

WormClearanceValues == {-150, 0, 25}

\* the diameter of a worm
WormDiameterValues == {4, 5}

\* the thickness of the ring of a crown gear
ThicknessValues == {0, 1}

\* The values tried for the properties of a feature that its replication
\* and what comes after reads; teeth is teeth_number for the
\* HypoCycloidGear.  A property the family does not have is kept at a fixed
\* value.
ReplicaValues(family) ==
    [teeth |-> TeethValues,
     module |-> IF family \in {"WormGear", "CrownGear"} THEN ModuleValues ELSE {1},
     height |-> IF family = "HypoCycloidGear" THEN {0} ELSE HeightValues,
     type |-> IF family = "TimingGear" THEN {"gt2", "gt3", "gt5"}
              ELSE IF family = "ProfileTimingGear" THEN {"MXL"} ELSE {"none"},
     head |-> IF family = "WormGear" THEN WormHeadValues ELSE {0},
     clearance |-> IF family = "WormGear" THEN WormClearanceValues ELSE {0},
     diameter |-> IF family = "WormGear" THEN WormDiameterValues ELSE {0},
     reverse_pitch |-> IF family = "WormGear" THEN BOOLEAN ELSE {FALSE},
     thickness |-> IF family = "CrownGear" THEN ThicknessValues ELSE {0},
     preview_mode |-> IF family = "CrownGear" THEN BOOLEAN ELSE {FALSE}]

\* The features after construction.  computed stands for the read-only
\* properties a call writes: the entry of the data table they are copied
\* from, or the angle beta of a worm by its tangent.
ReplicaFeatures(family) ==
    LET v == ReplicaValues(family)
    IN  [family : {family},
         teeth : v.teeth,
         module : v.module,
         height : v.height,
         type : v.type,
         head : v.head,
         clearance : v.clearance,
         diameter : v.diameter,
         reverse_pitch : v.reverse_pitch,
         thickness : v.thickness,
         preview_mode : v.preview_mode,
         computed : {NotComputed}]

\* ------------------------------------------------------------- TimingGear
\* A point of the tooth of a timing gear: the point the code names p,
\* mirrored at the y axis or not, then turned about the origin by rot.
TimingPoint(p) == [p |-> p, mirrored |-> FALSE, rot |-> 0]

\* np.array([0., 0.])
Origin == [p |-> "origin", mirrored |-> FALSE, rot |-> 0]

\* mir * x with mir = np.array([-1., 1.]): a turn by rot followed by the
\* mirror is the mirror followed by the turn by -rot
mir(x) ==
    IF x = Origin THEN x
    ELSE [x EXCEPT !.mirrored = ~@, !.rot = (Full - @) % Full]

\* pygears reflection(angle)(x): the polar angle t of x becomes
\* -t - 2 * angle, which is the mirror at the y axis followed by the turn
\* by -pi - 2 * angle
reflection(angle, x) ==
    IF x = Origin THEN x
    ELSE [x EXCEPT !.mirrored = ~@,
                   !.rot = (3 * Full - HalfTurn - 2 * angle - @) % Full]

\* a point turned about the origin
turn_point(x, a) == IF x = Origin THEN x ELSE [x EXCEPT !.rot = (@ + a) % Full]

\* part_arc_from_points_and_center(start, end, center)
part_arc(start, end, center) == [start |-> start, end |-> end, center |-> center]

\* the arcs of one tooth, lines 1083-1111
timing_arcs(teeth) ==
    LET phi5 == HalfTurn \div teeth
        x2 == TimingPoint("x2")
        x3 == TimingPoint("x3")
        x4 == TimingPoint("x4")
        m_12 == TimingPoint("m_12")
        m_23 == TimingPoint("m_23")
        m_34 == TimingPoint("m_34")
        x6 == reflection(-phi5 - QuarterTurn, x4)
        xn2 == mir(x2)
        xn3 == mir(x3)
        xn4 == mir(x4)
        mn_34 == mir(m_34)
        mn_23 == mir(m_23)
    IN  <<part_arc(xn4, xn3, mn_34),
          part_arc(xn3, xn2, mn_23),
          part_arc(xn2, x2, m_12),
          part_arc(x2, x3, m_23),
          part_arc(x3, x4, m_34),
          part_arc(x4, x6, Origin)>>

\* the arcs of a wire where the wire lies
placed_arcs(wire) ==
    [k \in 1..Len(wire.geometry) |->
        part_arc(turn_point(wire.geometry[k].start, wire.rot),
                 turn_point(wire.geometry[k].end, wire.rot),
                 turn_point(wire.geometry[k].center, wire.rot))]

\* the frame of a generation call before its replication loop
NoReplica == [last |-> NoShape, copies |-> <<>>, rot |-> 0]

\* TimingGear.generate_gear_shape up to the loop
TimingStart ==
    /\ pc \in {"idle", "done"}
    /\ fp.family = "TimingGear"
    /\ fp' = [fp EXCEPT !.computed = [data |-> fp.type]]
    /\ loc' = [last |-> Built(timing_arcs(fp.teeth)),
               copies |-> <<Built(timing_arcs(fp.teeth))>>,
               rot |-> turn_matrix(0, replica_step(fp.teeth))]
    /\ i' = 0
    /\ shape' = NoShape
    /\ pc' = "replicate"
    /\ UNCHANGED <<gear, pts, rotated_pts, rot, calls>>

\* one pass of "for _ in range(fp.teeth - 1)": the copy made last is turned
TimingStep ==
    /\ pc = "replicate"
    /\ fp.family = "TimingGear"
    /\ i < fp.teeth - 1
    /\ loc' = [loc EXCEPT !.last = turn_shape(loc.last, loc.rot),
                          !.copies = Append(@, turn_shape(loc.last, loc.rot))]
    /\ i' = i + 1
    /\ UNCHANGED <<fp, gear, pc, pts, rotated_pts, rot, calls, shape>>

\* the outline of the wires, extruded unless the height is 0
outline_shape(f, wires) ==
    IF f.height = 0 THEN [kind |-> "wire", wires |-> wires]
    ELSE [kind |-> "extrusion", wires |-> wires, height |-> f.height]

\* TimingGear.generate_gear_shape after the loop
TimingEnd ==
    /\ pc = "replicate"
    /\ fp.family = "TimingGear"
    /\ ~(i < fp.teeth - 1)
    /\ shape' = outline_shape(fp, loc.copies)
    /\ pc' = "done"
    /\ UNCHANGED <<fp, gear, pts, rotated_pts, rot, i, calls, loc>>

\* --------------------------------------------------------------- WormGear
\* A length along the axis of a worm or an angle about it: pi times the
\* coefficient pi plus tan(pressure_angle) times the coefficient tan.
Lin(a, b) == [pi |-> a, tan |-> b]

LinAdd(x, y) == Lin(RAdd(x.pi, y.pi), RAdd(x.tan, y.tan))

LinSub(x, y) == Lin(RSub(x.pi, y.pi), RSub(x.tan, y.tan))

LinScale(k, x) == Lin(RMul(k, x.pi), RMul(k, x.tan))

\* fp.head and fp.clearance, stored in 1 / 100
worm_head(f) == R(f.head, 100)

worm_clearance(f) == R(f.clearance, 100)

\* r_1 = (d - (2 + 2 * clearance) * m) / 2
worm_r_1(f) ==
    RMul(RHalf, RSub(RInt(f.diameter),
                     RMul(RAdd(RInt(2), RMul(RInt(2), worm_clearance(f))),
                          RInt(f.module))))

\* a slip of r_2: the addendum is taken off the pitch radius
worm_r_2_inward(f) ==
    RMul(RHalf, RSub(RInt(f.diameter),
                     RMul(RAdd(RInt(2), RMul(RInt(2), worm_head(f))),
                          RInt(f.module))))

\* r_2 = (d + (2 + 2 * head) * m) / 2
worm_r_2(f) ==
    RMul(RHalf, RAdd(RInt(f.diameter),
                     RMul(RAdd(RInt(2), RMul(RInt(2), worm_head(f))),
                          RInt(f.module))))

\* a slip of z_3: the tip land is not shortened by the head
worm_z_long_tip(f) ==
    LET m == RInt(f.module)
        z_a == Lin(Zero, RMul(RAdd(RInt(2), RAdd(worm_head(f), worm_clearance(f))), m))
        z_b == LinScale(RHalf, Lin(m, RMul(RInt(-4), m)))
        z_0 == Lin(Zero, RMul(worm_clearance(f), m))
        z_1 == LinSub(z_b, z_0)
        z_2 == LinAdd(z_1, z_a)
        z_3 == LinAdd(z_2, z_b)
        z_4 == LinAdd(z_3, z_a)
    IN  [z_0 |-> z_0, z_1 |-> z_1, z_2 |-> z_2, z_3 |-> z_3, z_4 |-> z_4]

\* z_a, z_b and z_0 .. z_4 of lines 732-738
worm_z(f) ==
    LET m == RInt(f.module)
        z_a == Lin(Zero, RMul(RAdd(RInt(2), RAdd(worm_head(f), worm_clearance(f))), m))
        z_b == LinScale(RHalf, Lin(m, RMul(RInt(-4), m)))
        z_0 == Lin(Zero, RMul(worm_clearance(f), m))
        z_1 == LinSub(z_b, z_0)
        z_2 == LinAdd(z_1, z_a)
        z_3 == LinSub(LinAdd(z_2, z_b),
                      Lin(Zero, RMul(RMul(RInt(2), worm_head(f)), m)))
        z_4 == LinAdd(z_3, z_a)
    IN  [z_0 |-> z_0, z_1 |-> z_1, z_2 |-> z_2, z_3 |-> z_3, z_4 |-> z_4]

\* phi = 2 * z / m / t
worm_phi(f, z) == LinScale(R(2, f.module * f.teeth), z)

\* helical_projection(r, z): the point at the radius r and the angle phi
helical_projection(f, r, z) == [r |-> r, phi |-> worm_phi(f, z)]

\* Part.makeCircle(r, center, axis, phi_a, phi_b): its two ends
makeCircle(r, phi_a, phi_b) ==
    [kind |-> "circle", start |-> [r |-> r, phi |-> phi_a],
     end |-> [r |-> r, phi |-> phi_b]]

\* the curve interpolated through the points from p to q
interpolate(p, q) == [kind |-> "bspline", start |-> p, end |-> q]

\* Part.Wire([c1, bsp1, c2, bsp2])
worm_wire(f) ==
    LET z == worm_z(f)
        r_1 == worm_r_1(f)
        r_2 == worm_r_2(f)
        c1 == makeCircle(r_1, worm_phi(f, z.z_0), worm_phi(f, z.z_1))
        bsp1 == interpolate(helical_projection(f, r_1, z.z_1),
                            helical_projection(f, r_2, z.z_2))
        c2 == makeCircle(r_2, worm_phi(f, z.z_2), worm_phi(f, z.z_3))
        bsp2 == interpolate(helical_projection(f, r_2, z.z_3),
                            helical_projection(f, r_1, z.z_4))
    IN  <<c1, bsp1, c2, bsp2>>

\* np.tan(beta) with beta = -(reverse_pitch * 2 - 1) * (pi / 2 - arctan(m * t / d)):
\* the tangent of pi / 2 - arctan(x) is 1 / x
worm_tan_beta(f) ==
    RMul(RInt(-((IF f.reverse_pitch THEN 1 ELSE 0) * 2 - 1)),
         RDiv(RInt(f.diameter), RInt(f.module * f.teeth)))

\* h * np.tan(beta) * 2 / d
worm_angle(f) ==
    RDiv(RMul(RMul(RInt(f.height), worm_tan_beta(f)), RInt(2)), RInt(f.diameter))

\* WormGear.generate_gear_shape from "if h == 0" on
worm_shape(f, w_all) ==
    LET full_wire == [kind |-> "wire", wires |-> w_all]
    IN  IF f.height = 0
        THEN [shape |-> full_wire, calls |-> <<>>]
        ELSE helicalextrusion(full_wire, RInt(f.height), worm_angle(f), FALSE)

\* WormGear.generate_gear_shape up to the loop
WormStart ==
    /\ pc \in {"idle", "done"}
    /\ fp.family = "WormGear"
    /\ fp' = [fp EXCEPT !.computed =
                 [beta |-> [arctan |-> R(fp.module * fp.teeth, fp.diameter)]]]
    /\ loc' = [last |-> Built(worm_wire(fp)),
               copies |-> <<Built(worm_wire(fp))>>,
               rot |-> turn_matrix(0, replica_step(fp.teeth))]
    /\ i' = 1
    /\ calls' = <<>>
    /\ shape' = NoShape
    /\ pc' = "replicate"
    /\ UNCHANGED <<gear, pts, rotated_pts, rot>>

\* one pass of "for i in range(1, t)": the last wire of w_all is turned
WormStep ==
    /\ pc = "replicate"
    /\ fp.family = "WormGear"
    /\ i < fp.teeth
    /\ loc' = [loc EXCEPT
                 !.last = turn_shape(loc.copies[Len(loc.copies)], loc.rot),
                 !.copies = Append(@, turn_shape(loc.copies[Len(loc.copies)], loc.rot))]
    /\ i' = i + 1
    /\ UNCHANGED <<fp, gear, pc, pts, rotated_pts, rot, calls, shape>>

\* WormGear.generate_gear_shape after the loop
WormEnd ==
    /\ pc = "replicate"
    /\ fp.family = "WormGear"
    /\ ~(i < fp.teeth)
    /\ shape' = worm_shape(fp, loc.copies).shape
    /\ calls' = worm_shape(fp, loc.copies).calls
    /\ pc' = "done"
    /\ UNCHANGED <<fp, gear, pts, rotated_pts, rot, i, loc>>

\* -------------------------------------------------------------- CrownGear
\* face.extrude(App.Vector([0., 0., -fp.thickness.Value])) of the face
\* between the outer and the inner circle
crown_solid(f) ==
    [kind |-> "ring",
     inner_diameter |-> f.module * f.teeth,
     outer_diameter |-> f.module * f.teeth + f.height * 2,
     dz |-> -f.thickness]

\* makeLoft(polies, True) over np.linspace(r0, r1, fp.num_profiles), with
\* r0 = inner_diameter / 2 - height * 0.1 and r1 = outer_diameter / 2 + height * 0.3
crown_loft(f) ==
    [kind |-> "loft",
     r0 |-> RSub(R(crown_solid(f).inner_diameter, 2), R(f.height, 10)),
     r1 |-> RAdd(R(crown_solid(f).outer_diameter, 2), R(f.height * 3, 10))]

\* solid.cut(cut_shapes)
cut(solid, cut_shapes) == [kind |-> "cut", of |-> solid, tools |-> cut_shapes]

\* a slip of the preview: the ring is cut although preview_mode is set
CrownPreviewCut ==
    /\ pc \in {"idle", "done"}
    /\ fp.family = "CrownGear"
    /\ fp.preview_mode
    /\ loc' = NoReplica
    /\ i' = 0
    /\ shape' = cut(crown_solid(fp), <<Built(crown_loft(fp))>>)
    /\ pc' = "done"
    /\ UNCHANGED <<fp, gear, pts, rotated_pts, rot, calls>>

\* CrownGear.generate_gear_shape with preview_mode set: "return solid"
CrownPreview ==
    /\ pc \in {"idle", "done"}
    /\ fp.family = "CrownGear"
    /\ fp.preview_mode
    /\ loc' = NoReplica
    /\ i' = 0
    /\ shape' = crown_solid(fp)
    /\ pc' = "done"
    /\ UNCHANGED <<fp, gear, pts, rotated_pts, rot, calls>>

\* CrownGear.generate_gear_shape up to the loop, preview_mode not set
CrownStart ==
    /\ pc \in {"idle", "done"}
    /\ fp.family = "CrownGear"
    /\ ~fp.preview_mode
    /\ loc' = [last |-> Built(crown_loft(fp)),
               copies |-> <<>>,
               rot |-> turn_matrix(0, replica_step(fp.teeth))]
    /\ i' = 0
    /\ shape' = NoShape
    /\ pc' = "replicate"
    /\ UNCHANGED <<fp, gear, pts, rotated_pts, rot, calls>>

\* one pass of "for _ in range(t)": the loft is turned and kept
CrownStep ==
    /\ pc = "replicate"
    /\ fp.family = "CrownGear"
    /\ i < fp.teeth
    /\ loc' = [loc EXCEPT !.last = turn_shape(loc.last, loc.rot),
                          !.copies = Append(@, turn_shape(loc.last, loc.rot))]
    /\ i' = i + 1
    /\ UNCHANGED <<fp, gear, pc, pts, rotated_pts, rot, calls, shape>>

\* "return solid.cut(cut_shapes)"
CrownEnd ==
    /\ pc = "replicate"
    /\ fp.family = "CrownGear"
    /\ ~(i < fp.teeth)
    /\ shape' = cut(crown_solid(fp), loc.copies)
    /\ pc' = "done"
    /\ UNCHANGED <<fp, gear, pts, rotated_pts, rot, i, calls, loc>>

\* ------------------------------------------- ProfileTimingGear, LanternGear
\* the wire of one tooth: the polygon of the belt tooth of the type, or the
\* flanks, the arc and the closing arc of a lantern tooth
tooth_wire(f) ==
    IF f.family = "ProfileTimingGear"
    THEN [kind |-> "polygon", type |-> f.type]
    ELSE [kind |-> "lantern tooth", teeth |-> f.teeth]

\* Both generation calls up to the loop: the first tooth is used where it
\* was built and the matrix is empty.
AccumulateStart ==
    /\ pc \in {"idle", "done"}
    /\ fp.family \in {"ProfileTimingGear", "LanternGear"}
    /\ fp' = [fp EXCEPT !.computed =
                 IF fp.family = "ProfileTimingGear" THEN [data |-> fp.type] ELSE @]
    /\ loc' = [last |-> Built(tooth_wire(fp)),
               copies |-> <<Built(tooth_wire(fp))>>,
               rot |-> 0]
    /\ i' = 0
    /\ shape' = NoShape
    /\ pc' = "replicate"
    /\ UNCHANGED <<gear, pts, rotated_pts, rot, calls>>

\* one pass of "for _ in range(teeth - 1)": the matrix is turned by one more
\* step and the first tooth is turned by the matrix
AccumulateStep ==
    /\ pc = "replicate"
    /\ fp.family \in {"ProfileTimingGear", "LanternGear"}
    /\ i < fp.teeth - 1
    /\ loc' = [loc EXCEPT
                 !.rot = turn_matrix(@, replica_step(fp.teeth)),
                 !.copies = Append(@,
                     turn_shape(loc.last, turn_matrix(loc.rot, replica_step(fp.teeth))))]
    /\ i' = i + 1
    /\ UNCHANGED <<fp, gear, pc, pts, rotated_pts, rot, calls, shape>>

\* the pulley: the disk with every tooth cut out of it, extruded unless the
\* height is 0
pulley_shape(f, teeth_cut) ==
    IF f.height = 0 THEN cut([kind |-> "disk"], teeth_cut)
    ELSE [kind |-> "extrusion", face |-> cut([kind |-> "disk"], teeth_cut),
          height |-> f.height]

\* both generation calls after the loop
AccumulateEnd ==
    /\ pc = "replicate"
    /\ fp.family \in {"ProfileTimingGear", "LanternGear"}
    /\ ~(i < fp.teeth - 1)
    /\ shape' = IF fp.family = "ProfileTimingGear"
                THEN pulley_shape(fp, loc.copies)
                ELSE outline_shape(fp, loc.copies)
    /\ pc' = "done"
    /\ UNCHANGED <<fp, gear, pts, rotated_pts, rot, i, calls, loc>>

\* -------------------------------------------------------- HypoCycloidGear
\* the wire through the points of one lobe of the cam; the matrix turns
\* about the centre of the cam at x = -eccentricity
cam_lobe == [kind |-> "cam lobe", center |-> -Eccentricity]

\* HypoCycloidGear.generate_gear_shape from "wires = []" to the loop, for a
\* cam whose points were found
CamStart ==
    /\ pc \in {"idle", "done"}
    /\ fp.family = "HypoCycloidGear"
    /\ loc' = [last |-> Built(cam_lobe),
               copies |-> <<>>,
               rot |-> turn_matrix(0, replica_step(fp.teeth))]
    /\ i' = 0
    /\ shape' = NoShape
    /\ pc' = "replicate"
    /\ UNCHANGED <<fp, gear, pts, rotated_pts, rot, calls>>

\* one pass of "for _ in range(n)": the wire is turned and kept
CamStep ==
    /\ pc = "replicate"
    /\ fp.family = "HypoCycloidGear"
    /\ i < fp.teeth
    /\ loc' = [loc EXCEPT !.last = turn_shape(loc.last, loc.rot),
                          !.copies = Append(@, turn_shape(loc.last, loc.rot))]
    /\ i' = i + 1
    /\ UNCHANGED <<fp, gear, pc, pts, rotated_pts, rot, calls, shape>>

\* "cam = Face(Wire(wires))"; the disks and the pins made with it are the
\* subject of HypoSpec
CamEnd ==
    /\ pc = "replicate"
    /\ fp.family = "HypoCycloidGear"
    /\ ~(i < fp.teeth)
    /\ shape' = [kind |-> "face", wires |-> loc.copies]
    /\ pc' = "done"
    /\ UNCHANGED <<fp, gear, pts, rotated_pts, rot, i, calls, loc>>

\* ----------------------------------------------------- the specification
ReplicaInit ==
    /\ fp \in UNION {ReplicaFeatures(f) : f \in ReplicaFamilies}
    /\ gear = NoGear
    /\ pc = "idle"
    /\ pts = <<>>
    /\ rotated_pts = <<>>
    /\ rot = 0
    /\ i = 0
    /\ calls = <<>>
    /\ shape = NoShape
    /\ loc = NoReplica

\* The user sets one property between two generation calls; what the last
\* call computed stays on the feature.
ReplicaEdit ==
    /\ pc \in {"idle", "done"}
    /\ \E n \in DOMAIN ReplicaValues(fp.family) :
          \E v \in ReplicaValues(fp.family)[n] \ {fp[n]} :
             fp' = [fp EXCEPT ![n] = v]
    /\ pc' = "idle"
    /\ loc' = NoReplica
    /\ i' = 0
    /\ calls' = <<>>
    /\ shape' = NoShape
    /\ UNCHANGED <<gear, pts, rotated_pts, rot>>

ReplicaNext ==
    \/ ReplicaEdit
    \/ TimingStart \/ TimingStep \/ TimingEnd
    \/ WormStart \/ WormStep \/ WormEnd
    \/ CrownPreview \/ CrownStart \/ CrownStep \/ CrownEnd
    \/ AccumulateStart \/ AccumulateStep \/ AccumulateEnd
    \/ CamStart \/ CamStep \/ CamEnd

ReplicaSpec == ReplicaInit /\ [][ReplicaNext]_vars

\* ------------------------------------------------ the properties: TimingGear
TimingDone == pc = "done" /\ fp.family = "TimingGear"

\* the wire after wire k of the outline, the first one after the last
NextWire(k) == (k % fp.teeth) + 1

\* C21: the outline of a TimingGear has one wire of exactly six arcs per
\* tooth; in every tooth arc k + 1 starts where arc k ends (k = 1..5), and
\* the sixth arc ends where the first arc of the next tooth, turned by
\* 2 pi / teeth, starts, so that the 6 * teeth arcs form a closed outline.
C21_SixArcsChained ==
    TimingDone =>
        /\ Len(shape.wires) = fp.teeth
        /\ \A j \in 1..Len(shape.wires) :
              LET arcs == placed_arcs(shape.wires[j])
              IN  /\ Len(arcs) = 6
                  /\ \A k \in 1..5 : arcs[k].end = arcs[k + 1].start
                  /\ arcs[6].end = placed_arcs(shape.wires[NextWire(j)])[1].start
                  /\ shape.wires[NextWire(j)].rot =
                        (shape.wires[j].rot + Full \div fp.teeth) % Full

\* an outline of MaxTeeth teeth whose second tooth starts where the first ends
C21_Witness ==
    /\ TimingDone
    /\ fp.teeth = MaxTeeth
    /\ Len(shape.wires) = MaxTeeth
    /\ shape.wires[2].rot # shape.wires[1].rot
    /\ placed_arcs(shape.wires[1])[6].end = placed_arcs(shape.wires[2])[1].start

\* ------------------------------------------------- the properties: CrownGear
CrownDone == pc = "done" /\ fp.family = "CrownGear"

\* the uncut ring the claim describes
UncutRing ==
    [kind |-> "ring",
     inner_diameter |-> fp.module * fp.teeth,
     outer_diameter |-> fp.module * fp.teeth + 2 * fp.height,
     dz |-> -fp.thickness]

\* C23: with preview_mode set the CrownGear returns the uncut ring (inner
\* diameter module * teeth, outer diameter inner + 2 * height, extruded by
\* -thickness) and builds no cutting loft; with preview_mode not set the
\* ring is cut by exactly teeth lofts, loft k turned by k * 2 pi / teeth,
\* k = 1..teeth.
C23_PreviewUncut ==
    CrownDone =>
        IF fp.preview_mode
        THEN shape = UncutRing /\ loc = NoReplica
        ELSE /\ shape.kind = "cut"
             /\ shape.of = UncutRing
             /\ Len(shape.tools) = fp.teeth
             /\ \A k \in 1..fp.teeth :
                   /\ shape.tools[k].geometry.kind = "loft"
                   /\ shape.tools[k].rot = (k * (Full \div fp.teeth)) % Full

\* a preview of a ring with a width and a thickness
C23_Witness ==
    /\ CrownDone
    /\ fp.preview_mode
    /\ fp.height > 0 /\ fp.thickness > 0
    /\ shape = UncutRing

\* -------------------------------------------------- the properties: WormGear
\* a wire of the worm has been built
WormBuilt == fp.family = "WormGear" /\ pc \in {"replicate", "done"}

\* the first wire of the worm
WormWire == loc.copies[1].geometry

\* C24: with head >= 0, clearance >= 0 and module > 0 the radius r_2 of the
\* tip arc is at least d / 2 and the radius r_1 of the root arc is at most
\* d / 2.
C24_RadiiOrdered ==
    (WormBuilt /\ fp.head >= 0 /\ fp.clearance >= 0 /\ fp.module > 0) =>
        /\ RLe(R(fp.diameter, 2), WormWire[3].start.r)
        /\ RLe(WormWire[1].start.r, R(fp.diameter, 2))

\* a worm with a head and a clearance: the pitch radius lies strictly between
C24_Witness ==
    /\ WormBuilt
    /\ fp.head > 0 /\ fp.clearance > 0
    /\ RLt(R(fp.diameter, 2), WormWire[3].start.r)
    /\ RLt(WormWire[1].start.r, R(fp.diameter, 2))

\* C28: the profile of one tooth of the worm spans one pitch: z_4 - z_0 is
\* pi * m, the angle of its end is the angle of its start plus 2 pi / t, and
\* each of the four curves (root arc, flank, tip arc, flank) starts at the
\* radius and the angle where the curve before it ends.
C28_OnePitch ==
    WormBuilt =>
        /\ LinSub(worm_z(fp).z_4, worm_z(fp).z_0) = Lin(RInt(fp.module), Zero)
        /\ Len(WormWire) = 4
        /\ LinSub(WormWire[4].end.phi, WormWire[1].start.phi)
              = Lin(R(2, fp.teeth), Zero)
        /\ WormWire[4].end.r = WormWire[1].start.r
        /\ \A k \in 1..3 : WormWire[k].end = WormWire[k + 1].start
        /\ <<WormWire[1].kind, WormWire[2].kind, WormWire[3].kind, WormWire[4].kind>>
              = <<"circle", "bspline", "circle", "bspline">>

\* a worm of MaxTeeth threads with a head and a clearance
C28_Witness ==
    /\ WormBuilt
    /\ pc = "done"
    /\ fp.teeth = MaxTeeth
    /\ fp.head > 0 /\ fp.clearance > 0
    /\ WormWire[4].end.phi = LinAdd(WormWire[1].start.phi, Lin(R(2, MaxTeeth), Zero))

\* --------------------------------------------- the properties: replication
\* a generation call that replicates has returned
ReplicaDone == pc = "done" /\ ~(fp.family = "CrownGear" /\ fp.preview_mode)

LoopCams ==
    {f \in HypoFeatures :
        /\ f.show_disk0 /\ f.show_disk1 /\ f.show_pins /\ f.center_pins
        /\ f.disk_height = DiskHeight
        /\ f.pin_height = PinHeight}

IsCam == fp.family = "HypoCycloidGear"

IsReplica == fp.family \in ReplicaFamilies \ {"HypoCycloidGear"}

IsOutline == fp.family \in Families

LoopInit ==
    /\ fp \in (UNION {Features(f) : f \in Families})
              \cup (UNION {ReplicaFeatures(f) :
                              f \in ReplicaFamilies \ {"HypoCycloidGear"}})
              \cup LoopCams
    /\ gear = NoGear
    /\ pc = "idle"
    /\ pts = <<>>
    /\ rotated_pts = <<>>
    /\ rot = 0
    /\ i = 0
    /\ calls = <<>>
    /\ shape = NoShape
    /\ loc = IF IsReplica THEN NoReplica ELSE NoLocals

\* The user sets one property of the cam between two generation calls.
CamEdit ==
    /\ pc \in {"idle", "done"}
    /\ IsCam
    /\ \/ \E v \in (0..MaxTeeth) \ {fp.teeth_number} :
             fp' = [fp EXCEPT !.teeth_number = v]
       \/ \E v \in LimitValues \ {fp.pressure_angle_lim} :
             fp' = [fp EXCEPT !.pressure_angle_lim = v]
       \/ \E v \in (1..MaxSegments) \ {fp.segment_count} :
             fp' = [fp EXCEPT !.segment_count = v]
    /\ pc' = "idle"
    /\ NoCall
    /\ UNCHANGED gear

\* The user sets one property of a feature of Spec.
OutlineEdit == IsOutline /\ Edit

\* The user sets one property of a feature of ReplicaSpec.
TurnedEdit == IsReplica /\ ReplicaEdit

\* HypoCycloidGear.generate_gear_shape with teeth_number = 0: "p = b / n"
CamRaise ==
    /\ pc \in {"idle", "done"}
    /\ IsCam
    /\ fp.teeth_number = 0
    /\ shape' = Raised("ZeroDivisionError")
    /\ pts' = <<>>
    /\ rotated_pts' = <<>>
    /\ i' = 0
    /\ calls' = <<>>
    /\ loc' = NoLocals
    /\ pc' = "done"
    /\ UNCHANGED <<fp, gear, rot>>

\* HypoCycloidGear.generate_gear_shape up to the scan
CamScanStart ==
    /\ pc \in {"idle", "done"}
    /\ IsCam
    /\ fp.teeth_number # 0
    /\ loc' = ScanInit
    /\ i' = 0
    /\ pts' = <<>>
    /\ rotated_pts' = <<>>
    /\ calls' = <<>>
    /\ shape' = NoShape
    /\ pc' = "scan"
    /\ UNCHANGED <<fp, gear, rot>>

\* the points of the profile of the cam of the call
CamPoints == cam_points(fp.segment_count, loc.maxRadius, loc.minRadius)

\* "i=0 ... points = [App.Vector(x-e, y, 0)]"
CamPointsStart ==
    /\ pc = "scanned"
    /\ pts' = <<CamPoints[1]>>
    /\ i' = 0
    /\ pc' = "points"
    /\ UNCHANGED <<fp, gear, rotated_pts, rot, calls, shape, loc>>

\* one pass of "for i in range(0,s)"
CamPointsStep ==
    /\ pc = "points"
    /\ i < fp.segment_count
    /\ pts' = Append(pts, CamPoints[i + 2])
    /\ i' = i + 1
    /\ UNCHANGED <<fp, gear, pc, rotated_pts, rot, calls, shape, loc>>

\* "wi = make_bspline_wire([points]); wires = []" and the matrix
CamWiresStart ==
    /\ pc = "points"
    /\ ~(i < fp.segment_count)
    /\ rotated_pts' = <<>>
    /\ i' = 0
    /\ pc' = "wires"
    /\ UNCHANGED <<fp, gear, pts, rot, calls, shape, loc>>

\* one pass of "for _ in range(n)": the wire made last is turned and kept
CamWiresStep ==
    /\ pc = "wires"
    /\ i < fp.teeth_number
    /\ rotated_pts' =
          Append(rotated_pts,
                 turn_shape(IF rotated_pts = <<>> THEN Built(cam_lobe)
                            ELSE rotated_pts[Len(rotated_pts)],
                            replica_step(fp.teeth_number)))
    /\ i' = i + 1
    /\ UNCHANGED <<fp, gear, pc, pts, rot, calls, shape, loc>>

\* HypoCycloidGear.generate_gear_shape from "cam = Face(Wire(wires))" on
CamFinish ==
    /\ pc = "wires"
    /\ ~(i < fp.teeth_number)
    /\ shape' = hypo_generate(fp).shape
    /\ calls' = hypo_generate(fp).calls
    /\ pc' = "done"
    /\ UNCHANGED <<fp, gear, pts, rotated_pts, rot, i, loc>>

\* the statements of the generation calls; each one is guarded by the family
\* of the feature or by a place only its family comes to
LoopCall ==
    \/ InvoluteStart \/ CycloidStart \/ BevelStart
    \/ AssembleStep \/ CloseOutline
    \/ InvoluteSelect \/ CycloidSelect
    \/ RackGenerate \/ BevelSelect
    \/ TimingStart \/ TimingStep \/ TimingEnd
    \/ WormStart \/ WormStep \/ WormEnd
    \/ CrownPreview \/ CrownStart \/ CrownStep \/ CrownEnd
    \/ AccumulateStart \/ AccumulateStep \/ AccumulateEnd
    \/ CamRaise \/ CamScanStart \/ ScanPass \/ ScanLeave
    \/ CamPointsStart \/ CamPointsStep
    \/ CamWiresStart \/ CamWiresStep \/ CamFinish

\* a statement of a call that has been entered and has not returned
Running == pc \notin {"idle", "done"}

LoopRun == Running /\ LoopCall

LoopNext == OutlineEdit \/ TurnedEdit \/ CamEdit \/ LoopCall

LoopSpec == LoopInit /\ [][LoopNext]_vars /\ WF_vars(LoopRun)

\* ------------------------------------------------ the properties: the loops
\* the counter of the loop a call is in is within the number of its passes
LoopBounded ==
    /\ pc = "loop" => i <= fp.teeth
    /\ pc = "replicate" => i <= fp.teeth
    /\ pc = "scan" => i <= ScanEnd
    /\ pc = "points" => i <= fp.segment_count
    /\ pc = "wires" => i <= fp.teeth_number

\* C25: every generation call terminates: its loops are bounded (the
\* assembly and the replication by teeth passes, the scan by a fixed number
\* of steps of 1 deg, the point loop of the cam by segment_count passes) and
\* a call that has been entered returns.
C25_Terminates == [](LoopBounded) /\ (Running ~> pc = "done")

\* a cam whose call has gone through the scan, the point loop and the wire
\* loop and has returned
C25_Witness ==
    /\ pc = "done"
    /\ IsCam
    /\ fp.teeth_number = MaxTeeth
    /\ fp.segment_count = MaxSegments
    /\ Len(pts) = MaxSegments + 1
    /\ Len(rotated_pts) = MaxTeeth
    /\ shape.kind = "compound"

\* ------------------------------------- the properties: the helical sweep
\* the requests for a helix of the call
HelixCalls == {calls[j].arg : j \in CallsOf("makeHelix")}

\* the sweep angle of the call, from the properties of the feature
HelixAngle ==
    IF fp.family = "WormGear" THEN worm_angle(fp)
    ELSE helix_angle(fp.height, fp.beta, PitchDiameter(fp.module, fp.teeth))

\* C27: helicalextrusion is reached only by InvoluteGear, CycloidGear and
\* WormGear, and only with a height and a sweep angle that are not 0, so
\* that the pitch height * 2 pi / |angle| is never computed with angle = 0.
C27_HelixDefined ==
    HelixCalls # {} =>
        /\ fp.family \in {"InvoluteGear", "CycloidGear", "WormGear"}
        /\ fp.height # 0
        /\ HelixAngle # Zero
        /\ \A spine \in HelixCalls : spine.pitch.d # 0

\* a worm swept along a helix
C27_Witness ==
    /\ pc = "done"
    /\ fp.family = "WormGear"
    /\ fp.height = MaxHeight
    /\ HelixCalls # {}
    /\ \E spine \in HelixCalls :
          spine.pitch = helix_pitch(RInt(MaxHeight), worm_angle(fp))

====
